---- MODULE Spec2Model ----
(***************************************************************************)
(* Command-latency telemetry of the proxy (src/pkg/proxy/stats.go).        *)
(*                                                                         *)
(* Units.  The source counts durations in nanoseconds and divides by 1e6   *)
(* to get milliseconds.  TLC's integers are 32 bits wide and 5000 ms is    *)
(* 5*10^9 ns, so the model counts durations in microseconds: every 1e6 of  *)
(* the source is UnitsPerMs here.  Nothing in the source looks below one   *)
(* millisecond except through that division.  Wall-clock instants (now,    *)
(* LastRefreshTime, lastSetSlowTime, refreshPeriod) are counted in         *)
(* seconds.                                                                *)
(***************************************************************************)
EXTENDS Integers, Sequences, FiniteSets, Bags, TLC

\* ------------------------------------------------------------ constants
TPFirstGrade == 5
TPFirstGradeSize == 40
TPSecondGrade == 25
TPSecondGradeSize == 20
TPThirdGrade == 250
TPThirdGradeSize == 10
TPMaxNum == TPFirstGradeSize + TPSecondGradeSize + TPThirdGradeSize
ClearSlowFlagPeriodRate == 3
IntervalNum == 5
DelayKindNum == 8
UnitsPerMs == 1000
MaxSlackMs == 5

Windows == 0 .. (IntervalNum - 1)
Buckets == 0 .. (TPMaxNum - 1)
DelayKinds == 0 .. (DelayKindNum - 1)

IntervalMark == [i \in Windows |-> <<1, 10, 60, 600, 3600>>[i + 1]]
DelayNumMark == [k \in DelayKinds |-> <<50, 100, 200, 300, 500, 1000, 2000, 3000>>[k + 1]]

\* Go's integer division truncates toward zero.
GoDiv(a, b) == IF a >= 0 THEN a \div b ELSE -((-a) \div b)

\* cmdstats.tpdelay, filled by init(): the upper edge (ms) of every bucket.
tpdelay ==
  [i \in Buckets |->
     IF i < TPFirstGradeSize
       THEN (i + 1) * TPFirstGrade
     ELSE IF i < TPFirstGradeSize + TPSecondGradeSize
       THEN TPFirstGradeSize * TPFirstGrade + (i - TPFirstGradeSize + 1) * TPSecondGrade
     ELSE TPFirstGradeSize * TPFirstGrade + TPSecondGradeSize * TPSecondGrade
            + (i - TPFirstGradeSize - TPSecondGradeSize + 1) * TPThirdGrade]

\* ------------------------------------------------------------ bounds
\* Largest duration (ms) fed to the bucketer in SpecBucket.
MaxBucketMs == 5001
\* Events fed to the engine in SpecRefresh, and the seconds its clock runs.
MaxEvents == 2
MaxElapsed == 2
\* Seconds the clock advances in SpecLive.
MaxLiveElapsed == 6
\* Sessions opened in SpecSessions.
MaxSessions == 2
\* Seconds the clock runs in SpecCadence: past the second window's interval.
MaxCadenceElapsed == 11
\* Seconds the clock advances in Spec.
MaxCtlElapsed == 2
\* Events fed to one window in SpecPercentile before its refresh.
MaxTpEvents == 11
\* The wall clock (seconds) when init() runs.
StartTime == 10

\* ------------------------------------------------------------ records
TypeReply == "TypeReply"
TypeError == "TypeError"
RespTypes == {TypeReply, TypeError}
OpStrs == {"GET", "SET", "ALL"}

\* &delayInfo{interval: IntervalMark[i]}: every other field is Go's zero value.
\* The histogram tp [TPMaxNum]Int64 is kept as the bag of its bucket indexes:
\* tp[i] of the source is CopiesIn(i, tp), and the all-zero array is EmptyBag.
NewDelayInfo(i) ==
  [interval |-> IntervalMark[i],
   calls |-> 0, nsecs |-> 0, nsecsmax |-> 0, avg |-> 0, qps |-> 0,
   tp |-> EmptyBag,
   tp90 |-> 0, tp99 |-> 0, tp999 |-> 0, tp9999 |-> 0, tp100 |-> 0,
   delayCount |-> [k \in DelayKinds |-> 0],
   delay50ms |-> 0, delay100ms |-> 0, delay200ms |-> 0, delay300ms |-> 0,
   delay500ms |-> 0, delay1s |-> 0, delay2s |-> 0, delay3s |-> 0]

\* &opStats{opstr: opstr} with its five delayInfo, as getOpStats builds it.
NewOpStats(opstr) ==
  [opstr |-> opstr,
   totalCalls |-> 0, totalNsecs |-> 0, totalFails |-> 0,
   lastSetSlowTime |-> 0, lastClearSlowTime |-> 0,
   delayInfo |-> [i \in Windows |-> NewDelayInfo(i)],
   rediserrors |-> 0]

\* ------------------------------------------------------------ bucketer
\* The index computation at the head of opStats.incrTP (duration in units).
\* A bucketer whose first grade divides without rounding up.
TPIndexNoCeil(duration) ==
  LET duration_ms == GoDiv(duration, UnitsPerMs)
      g1 == TPFirstGrade * TPFirstGradeSize
      g2 == g1 + TPSecondGrade * TPSecondGradeSize
      g3 == g2 + TPThirdGrade * TPThirdGradeSize
  IN  IF duration_ms <= 0 THEN 0
      ELSE IF duration_ms <= g1
        THEN GoDiv(duration_ms, TPFirstGrade)
      ELSE IF duration_ms <= g2
        THEN GoDiv(duration_ms - g1 + TPSecondGrade - 1, TPSecondGrade)
               + TPFirstGradeSize - 1
      ELSE IF duration_ms <= g3
        THEN GoDiv(duration_ms - g2 + TPThirdGrade - 1, TPThirdGrade)
               + TPFirstGradeSize + TPSecondGradeSize - 1
      ELSE TPMaxNum - 1

TPIndex(duration) ==
  LET duration_ms == GoDiv(duration, UnitsPerMs)
      g1 == TPFirstGrade * TPFirstGradeSize
      g2 == g1 + TPSecondGrade * TPSecondGradeSize
      g3 == g2 + TPThirdGrade * TPThirdGradeSize
  IN  IF duration_ms <= 0 THEN 0
      ELSE IF duration_ms <= g1
        THEN GoDiv(duration_ms + TPFirstGrade - 1, TPFirstGrade) - 1
      ELSE IF duration_ms <= g2
        THEN GoDiv(duration_ms - g1 + TPSecondGrade - 1, TPSecondGrade)
               + TPFirstGradeSize - 1
      ELSE IF duration_ms <= g3
        THEN GoDiv(duration_ms - g2 + TPThirdGrade - 1, TPThirdGrade)
               + TPFirstGradeSize + TPSecondGradeSize - 1
      ELSE TPMaxNum - 1

\* A loop body that stores every duration as the maximum.
IncrTPWindowLast(d, duration, index) ==
  [d EXCEPT !.calls = @ + 1,
            !.nsecs = @ + duration,
            !.nsecsmax = duration,
            !.tp = @ (+) (index :> 1)]

\* One pass of incrTP's loop body over window d with no other updater in
\* between: the CAS at line 370 then succeeds at once.
IncrTPWindow(d, duration, index) ==
  [d EXCEPT !.calls = @ + 1,
            !.nsecs = @ + duration,
            !.nsecsmax = IF duration >= @ + MaxSlackMs * UnitsPerMs THEN duration ELSE @,
            !.tp = @ (+) (index :> 1)]

\* opStats.incrTP run to completion.
incrTP(s, duration) ==
  LET index == TPIndex(duration)
  IN  IF index < 0 THEN s
      ELSE [s EXCEPT !.delayInfo =
              [i \in Windows |-> IncrTPWindow(s.delayInfo[i], duration, index)]]

\* The kinds incrDelayNum counts for a duration in ms: it walks DelayNumMark
\* in order and stops at the first mark above the duration.
DelayKindsHit(duration_ms) ==
  {k \in DelayKinds : \A k2 \in 0 .. k : duration_ms >= DelayNumMark[k2]}

\* opStats.incrDelayNum run to completion (duration in ms).
incrDelayNum(s, duration_ms) ==
  [s EXCEPT !.delayInfo =
     [j \in Windows |->
        [s.delayInfo[j] EXCEPT !.delayCount =
           [k \in DelayKinds |->
              IF k \in DelayKindsHit(duration_ms) THEN @[k] + 1 ELSE @[k]]]]]

\* opStats.incrOpStats run to completion.
opIncrOpStats(s, responseTime, t) ==
  LET s1 == [s EXCEPT !.totalCalls = @ + 1,
                      !.totalNsecs = @ + responseTime,
                      !.rediserrors = IF t = TypeError THEN @ + 1 ELSE @]
  IN  incrDelayNum(incrTP(s1, responseTime), GoDiv(responseTime, UnitsPerMs))

\* ------------------------------------------------------------ refresh
\* int64(float64(calls) * persents), persents = num/den (0.9 .. 0.9999): the
\* product is exact in float64 for every count the model reaches.
TpNum(calls, num, den) == GoDiv(calls * num, den)

\* One of refresh4TpInfo's for loops, entered at bucket i with the running sum
\* count: it stops at the first bucket where the sum reaches tpnum, or at the
\* last bucket.
RECURSIVE ScanTp(_, _, _, _)
ScanTp(tp, i, count, tpnum) ==
  LET c == count + CopiesIn(i, tp)
  IN  IF c >= tpnum \/ i = TPMaxNum - 1
        THEN [i |-> i, count |-> c]
        ELSE ScanTp(tp, i + 1, c, tpnum)

\* The if/else around the second, third and fourth loop: stay at the bucket
\* reached when the sum already covers tpnum, walk on otherwise.
NextTp(tp, at, tpnum) ==
  IF at.count >= tpnum \/ at.i = TPMaxNum - 1
    THEN at
    ELSE ScanTp(tp, at.i + 1, at.count, tpnum)

\* A refresh4TpInfo that publishes the first two ranks in each other's field.
refresh4TpInfoSwapped(d) ==
  IF d.calls = 0
    THEN [d EXCEPT !.tp90 = 0, !.tp99 = 0, !.tp999 = 0, !.tp9999 = 0]
    ELSE
      LET a1 == ScanTp(d.tp, 0, 0, TpNum(d.calls, 9, 10))
          a2 == NextTp(d.tp, a1, TpNum(d.calls, 99, 100))
          a3 == NextTp(d.tp, a2, TpNum(d.calls, 999, 1000))
          a4 == NextTp(d.tp, a3, TpNum(d.calls, 9999, 10000))
      IN  [d EXCEPT !.tp90 = tpdelay[a2.i], !.tp99 = tpdelay[a1.i],
                    !.tp999 = tpdelay[a3.i], !.tp9999 = tpdelay[a4.i]]

\* delayInfo.refresh4TpInfo.
refresh4TpInfo(d) ==
  IF d.calls = 0
    THEN [d EXCEPT !.tp90 = 0, !.tp99 = 0, !.tp999 = 0, !.tp9999 = 0]
    ELSE
      LET a1 == ScanTp(d.tp, 0, 0, TpNum(d.calls, 9, 10))
          a2 == NextTp(d.tp, a1, TpNum(d.calls, 99, 100))
          a3 == NextTp(d.tp, a2, TpNum(d.calls, 999, 1000))
          a4 == NextTp(d.tp, a3, TpNum(d.calls, 9999, 10000))
      IN  IF a1.i >= 0 /\ a2.i >= a1.i /\ a3.i >= a2.i /\ a4.i >= a3.i /\ a4.i < TPMaxNum
            THEN [d EXCEPT !.tp90 = tpdelay[a1.i], !.tp99 = tpdelay[a2.i],
                           !.tp999 = tpdelay[a3.i], !.tp9999 = tpdelay[a4.i]]
            ELSE [d EXCEPT !.tp90 = -1, !.tp99 = -1, !.tp999 = -1, !.tp9999 = -1]

\* delayInfo.refreshTpInfo.
refreshTpInfo(d) ==
  LET d1 == refresh4TpInfo(d)
  IN  [d1 EXCEPT !.tp100 = GoDiv(d.nsecsmax, UnitsPerMs),
                 !.avg = IF d.calls # 0
                           THEN GoDiv(GoDiv(d.nsecs, UnitsPerMs), d.calls)
                           ELSE 0]

\* delayInfo.resetTpInfo.
resetTpInfo(d) ==
  [d EXCEPT !.calls = 0, !.nsecs = 0, !.nsecsmax = 0, !.tp = EmptyBag]

\* delayInfo.refreshDelayInfo.
refreshDelayInfo(d) ==
  [d EXCEPT !.delay50ms = d.delayCount[0], !.delay100ms = d.delayCount[1],
            !.delay200ms = d.delayCount[2], !.delay300ms = d.delayCount[3],
            !.delay500ms = d.delayCount[4], !.delay1s = d.delayCount[5],
            !.delay2s = d.delayCount[6], !.delay3s = d.delayCount[7]]

\* delayInfo.resetDelayInfo.
resetDelayInfo(d) == [d EXCEPT !.delayCount = [k \in DelayKinds |-> 0]]

\* int64(math.Max(0, n) / since * second + 0.5), since in whole seconds > 0.
Normalized(n, since) ==
  LET m == IF n > 0 THEN n ELSE 0
  IN  (2 * m + since) \div (2 * since)

\* opStats.RefreshOpStats(index), since = time.Since(LastRefreshTime[index]).
RefreshOpStats(s, index, since) ==
  IF index < 0 \/ index >= IntervalNum
    THEN s
    ELSE
      LET d == s.delayInfo[index]
          d1 == [d EXCEPT !.qps = Normalized(d.calls, since)]
      IN  [s EXCEPT !.delayInfo[index] =
             resetDelayInfo(refreshDelayInfo(resetTpInfo(refreshTpInfo(d1))))]

\* ------------------------------------------------------------ state
VARIABLES
  opmap,            \* cmdstats.opmap: opstr -> opStats, for every registered opstr
  cmdstats,         \* total, fails, rediserrors, qps, refreshPeriod, logSlowerThan, autoSetSlowFlag
  rwmutex,          \* cmdstats.RWMutex: r (readers), w (writer), pend (announced writers)
  sessions,         \* the session gauges: total, alive
  now,              \* the wall clock
  LastRefreshTime,  \* per window
  maySlowOp,        \* per opstr, the callback last invoked for it: "set", "clear" or none
  hot,              \* the session handlers inside incrOpStats
  agg,              \* the aggregator goroutine
  ctl,              \* the slow-op controller goroutine
  adm,              \* the admin caller (StatsSet*, ResetStats)
  nevents,          \* history: hot-path calls issued
  seen,             \* history: per op and window, the durations recorded since its last reset
  pub,              \* history: per op and window, the durations its last refresh covered
  slow,             \* history: per op and window, the durations (ms) that began counting in
                    \* delayCount since its last resetDelayInfo
  swept,            \* history: StatsSetAutoSetSlowFlag(false) has returned and
                    \* autoSetSlowFlag was not set to true since
  passes,           \* history: per background loop, the locked passes it began with
                    \* refreshPeriod <= 0 since refreshPeriod was last stored
  objs              \* history: per opstr, the opStats objects allocated for it (made)
                    \* and the one cmdstats.opmap points to (cur, 0: none)

vars == <<opmap, cmdstats, rwmutex, sessions, now, LastRefreshTime, maySlowOp,
          hot, agg, ctl, adm, nevents, seen, pub, slow, swept, passes, objs>>

Threads == {"t1", "t2"}
None == "none"

\* A session handler outside incrOpStats.  Inside, cur is the op it works on
\* (pass 1: r.OpStr, pass 2: "ALL"), i the window and k the delay kind of its
\* loops, lastMax the local of incrTP, s the opStats object getOpStats
\* returned (0: nil).
HotIdle ==
  [pc |-> "idle", opstr |-> None, cur |-> None, pass |-> 1, dur |-> 0, rt |-> TypeReply,
   index |-> 0, i |-> 0, k |-> 0, lastMax |-> 0, s |-> 0]

\* init(): the registry is empty, refreshPeriod is one second, the other knobs
\* are Go's zero values, and both background goroutines are at the top of
\* their loops.
Init ==
  /\ opmap = << >>
  /\ cmdstats = [total |-> 0, fails |-> 0, rediserrors |-> 0, qps |-> 0,
                 refreshPeriod |-> 1, logSlowerThan |-> 0, autoSetSlowFlag |-> FALSE]
  /\ rwmutex = [r |-> {}, w |-> None, pend |-> {}]
  /\ sessions = [total |-> 0, alive |-> 0]
  /\ now = StartTime
  /\ LastRefreshTime = [i \in Windows |-> StartTime]
  /\ maySlowOp = [o \in OpStrs |-> None]
  /\ hot = [t \in Threads |-> HotIdle]
  /\ agg = [pc |-> "check"]
  /\ ctl = [pc |-> "check"]
  /\ adm = [pc |-> "idle"]
  /\ nevents = 0
  /\ seen = [o \in OpStrs |-> [i \in Windows |-> EmptyBag]]
  /\ pub = [o \in OpStrs |-> [i \in Windows |-> [done |-> FALSE, events |-> EmptyBag]]]
  /\ slow = [o \in OpStrs |-> [i \in Windows |-> EmptyBag]]
  /\ swept = FALSE
  /\ passes = [agg |-> 0, ctl |-> 0]
  /\ objs = [o \in OpStrs |-> [made |-> 0, cur |-> 0]]

\* ------------------------------------------------------------ registry lock
\* sync.RWMutex: RLock waits while a writer holds the lock or has announced
\* itself; Lock announces itself, then waits for the readers to leave.
CanRLock == rwmutex.w = None /\ rwmutex.pend = {}
CanAnnounce == rwmutex.w = None /\ rwmutex.pend = {}
CanLock(p) == rwmutex.w = None /\ rwmutex.r = {} /\ rwmutex.pend = {p}

\* getOpStats(opstr, true) on the map m: the entry is created when missing.
getOpStats(m, opstr) ==
  IF opstr \in DOMAIN m THEN m ELSE m @@ (opstr :> NewOpStats(opstr))

\* History: getOpStats(m, opstr) allocates an object for opstr, and stores
\* it in the map, when m has no entry for it.
Allocated(h, m, opstr) ==
  IF opstr \in DOMAIN m THEN h
  ELSE [h EXCEPT ![opstr] = [made |-> @.made + 1, cur |-> @.made + 1]]

\* History: the duration x is recorded in every window of op o.
Record(h, o, x) == [h EXCEPT ![o] = [i \in Windows |-> @[i] (+) (x :> 1)]]

\* ------------------------------------------------------------ hot path, whole calls
\* incrOpStats(r, t) as one step, r.OpStr = opstr and
\* time.Now().UnixNano() - r.ReceiveTime = responseTime.  Both lookups read-lock
\* the registry, and a lookup that has to create the entry write-locks it.
IncrOpStats(opstr, responseTime, t) ==
  /\ CanRLock
  /\ {opstr, "ALL"} \subseteq DOMAIN opmap \/ (CanAnnounce /\ rwmutex.r = {})
  /\ LET m1 == getOpStats(opmap, opstr)
         m2 == [m1 EXCEPT ![opstr] = opIncrOpStats(@, responseTime, t)]
         m3 == getOpStats(m2, "ALL")
     IN  opmap' = [m3 EXCEPT !["ALL"] = opIncrOpStats(@, responseTime, t)]
  /\ cmdstats' = IF t = TypeError
                   THEN [cmdstats EXCEPT !.rediserrors = @ + 1]
                   ELSE cmdstats
  /\ nevents' = nevents + 1
  /\ seen' = Record(Record(seen, opstr, responseTime), "ALL", responseTime)
  /\ slow' = IF GoDiv(responseTime, UnitsPerMs) >= DelayNumMark[0]
               THEN Record(Record(slow, opstr, GoDiv(responseTime, UnitsPerMs)),
                           "ALL", GoDiv(responseTime, UnitsPerMs))
               ELSE slow
  /\ objs' = Allocated(Allocated(objs, opmap, opstr), opmap, "ALL")
  /\ UNCHANGED <<rwmutex, sessions, now, LastRefreshTime, maySlowOp, hot, agg, ctl, adm, pub, swept, passes>>

\* ------------------------------------------------------------ hot path, step by step
\* incrOpStats(r, t) one shared access at a time.
Slack == MaxSlackMs * UnitsPerMs

\* Where incrOpStats goes when opStats.incrOpStats returns: the second
\* getOpStats, the process-wide error counter, or its own return.
AfterOp(h) ==
  IF h.pass = 1
    THEN [h EXCEPT !.pc = "lookup", !.cur = "ALL", !.pass = 2,
                   !.index = 0, !.i = 0, !.k = 0, !.lastMax = 0, !.s = 0]
  ELSE IF h.rt = TypeError
    THEN [h EXCEPT !.pc = "cmderrors"]
    ELSE HotIdle

\* incrOpStats is entered with r.OpStr = opstr and responseTime = d.
HotCall(t, opstr, d, rt) ==
  /\ hot[t].pc = "idle"
  /\ hot' = [hot EXCEPT ![t] = [HotIdle EXCEPT !.pc = "lookup", !.opstr = opstr,
                                               !.cur = opstr, !.dur = d, !.rt = rt]]
  /\ nevents' = nevents + 1
  /\ UNCHANGED <<opmap, cmdstats, rwmutex, sessions, now, LastRefreshTime, maySlowOp,
                 agg, ctl, adm, seen, pub, slow, swept, passes, objs>>

\* getOpStats, lines 615-621: the lookup under the read lock.
HotLookup(t) ==
  /\ hot[t].pc = "lookup"
  /\ CanRLock
  /\ hot' = [hot EXCEPT ![t].pc =
               IF hot[t].cur \in DOMAIN opmap THEN "totalCalls" ELSE "announce",
                         ![t].s = objs[hot[t].cur].cur]
  /\ UNCHANGED <<opmap, cmdstats, rwmutex, sessions, now, LastRefreshTime, maySlowOp,
                 agg, ctl, adm, nevents, seen, pub, slow, swept, passes, objs>>

\* getOpStats, line 623: Lock() announces the writer ...
HotAnnounce(t) ==
  /\ hot[t].pc = "announce"
  /\ CanAnnounce
  /\ rwmutex' = [rwmutex EXCEPT !.pend = {t}]
  /\ hot' = [hot EXCEPT ![t].pc = "create"]
  /\ UNCHANGED <<opmap, cmdstats, sessions, now, LastRefreshTime, maySlowOp,
                 agg, ctl, adm, nevents, seen, pub, slow, swept, passes, objs>>

\* A getOpStats that allocates and stores a new entry under the write lock
\* without looking the opstr up again.
HotCreateNoLookup(t) ==
  /\ hot[t].pc = "create"
  /\ CanLock(t)
  /\ opmap' = [o \in DOMAIN opmap \cup {hot[t].cur} |->
                 IF o = hot[t].cur THEN NewOpStats(o) ELSE opmap[o]]
  /\ objs' = [objs EXCEPT ![hot[t].cur] = [made |-> @.made + 1, cur |-> @.made + 1]]
  /\ rwmutex' = [rwmutex EXCEPT !.pend = {}]
  /\ hot' = [hot EXCEPT ![t].pc = "totalCalls", ![t].s = objs'[hot[t].cur].cur]
  /\ UNCHANGED <<cmdstats, sessions, now, LastRefreshTime, maySlowOp,
                 agg, ctl, adm, nevents, seen, pub, slow, swept, passes>>

\* ... and, once the readers have left, lines 624-632 run under the write lock.
HotCreate(t) ==
  /\ hot[t].pc = "create"
  /\ CanLock(t)
  /\ opmap' = getOpStats(opmap, hot[t].cur)
  /\ objs' = Allocated(objs, opmap, hot[t].cur)
  /\ rwmutex' = [rwmutex EXCEPT !.pend = {}]
  /\ hot' = [hot EXCEPT ![t].pc = "totalCalls", ![t].s = objs'[hot[t].cur].cur]
  /\ UNCHANGED <<cmdstats, sessions, now, LastRefreshTime, maySlowOp,
                 agg, ctl, adm, nevents, seen, pub, slow, swept, passes>>

\* Line 558.
HotTotalCalls(t) ==
  /\ hot[t].pc = "totalCalls"
  /\ opmap' = [opmap EXCEPT ![hot[t].cur].totalCalls = @ + 1]
  /\ hot' = [hot EXCEPT ![t].pc = "totalNsecs"]
  /\ UNCHANGED <<cmdstats, rwmutex, sessions, now, LastRefreshTime, maySlowOp,
                 agg, ctl, adm, nevents, seen, pub, slow, swept, passes, objs>>

\* Line 559; the bucket index of incrTP (lines 340-361) reads no shared state
\* and is computed on the way.
HotTotalNsecs(t) ==
  /\ hot[t].pc = "totalNsecs"
  /\ opmap' = [opmap EXCEPT ![hot[t].cur].totalNsecs = @ + hot[t].dur]
  /\ hot' = [hot EXCEPT ![t].pc = IF hot[t].rt = TypeError THEN "errors" ELSE "calls",
                        ![t].index = TPIndex(hot[t].dur),
                        ![t].i = 0]
  /\ UNCHANGED <<cmdstats, rwmutex, sessions, now, LastRefreshTime, maySlowOp,
                 agg, ctl, adm, nevents, seen, pub, slow, swept, passes, objs>>

\* Line 562.
HotErrors(t) ==
  /\ hot[t].pc = "errors"
  /\ opmap' = [opmap EXCEPT ![hot[t].cur].rediserrors = @ + 1]
  /\ hot' = [hot EXCEPT ![t].pc = "calls"]
  /\ UNCHANGED <<cmdstats, rwmutex, sessions, now, LastRefreshTime, maySlowOp,
                 agg, ctl, adm, nevents, seen, pub, slow, swept, passes, objs>>

\* Line 364: from here on window i counts the event.
HotCalls(t) ==
  /\ hot[t].pc = "calls"
  /\ opmap' = [opmap EXCEPT ![hot[t].cur].delayInfo[hot[t].i].calls = @ + 1]
  /\ seen' = [seen EXCEPT ![hot[t].cur][hot[t].i] = @ (+) (hot[t].dur :> 1)]
  /\ hot' = [hot EXCEPT ![t].pc = "nsecs"]
  /\ UNCHANGED <<cmdstats, rwmutex, sessions, now, LastRefreshTime, maySlowOp,
                 agg, ctl, adm, nevents, pub, slow, swept, passes, objs>>

\* Line 365.
HotNsecs(t) ==
  /\ hot[t].pc = "nsecs"
  /\ opmap' = [opmap EXCEPT ![hot[t].cur].delayInfo[hot[t].i].nsecs = @ + hot[t].dur]
  /\ hot' = [hot EXCEPT ![t].pc = "loadmax"]
  /\ UNCHANGED <<cmdstats, rwmutex, sessions, now, LastRefreshTime, maySlowOp,
                 agg, ctl, adm, nevents, seen, pub, slow, swept, passes, objs>>

\* After a load of nsecsmax (lines 366-368, and 374-375 after a failed CAS):
\* try the CAS when the duration beats the loaded value by the slack, else go
\* on to the histogram.
AfterLoadMax(h, loaded) ==
  IF h.dur >= loaded + Slack
    THEN [h EXCEPT !.pc = "cas", !.lastMax = loaded]
    ELSE [h EXCEPT !.pc = "tp", !.lastMax = 0]

\* Lines 366-368.
HotLoadMax(t) ==
  /\ hot[t].pc = "loadmax"
  /\ hot' = [hot EXCEPT ![t] =
               AfterLoadMax(@, opmap[hot[t].cur].delayInfo[hot[t].i].nsecsmax)]
  /\ UNCHANGED <<opmap, cmdstats, rwmutex, sessions, now, LastRefreshTime, maySlowOp,
                 agg, ctl, adm, nevents, seen, pub, slow, swept, passes, objs>>

\* A CAS loop that gives up the first time its CompareAndSwap fails.
HotCasOnce(t) ==
  /\ hot[t].pc = "cas"
  /\ LET stored == opmap[hot[t].cur].delayInfo[hot[t].i].nsecsmax
     IN  opmap' = IF stored = hot[t].lastMax
                    THEN [opmap EXCEPT
                            ![hot[t].cur].delayInfo[hot[t].i].nsecsmax = hot[t].dur]
                    ELSE opmap
  /\ hot' = [hot EXCEPT ![t].pc = "tp", ![t].lastMax = 0]
  /\ UNCHANGED <<cmdstats, rwmutex, sessions, now, LastRefreshTime, maySlowOp,
                 agg, ctl, adm, nevents, seen, pub, slow, swept, passes, objs>>

\* Lines 370-381: CompareAndSwap(lastMax, duration); when it fails nsecsmax
\* is loaded again at once (nothing else is touched in between).
HotCas(t) ==
  /\ hot[t].pc = "cas"
  /\ LET stored == opmap[hot[t].cur].delayInfo[hot[t].i].nsecsmax
     IN  IF stored = hot[t].lastMax
           THEN /\ opmap' = [opmap EXCEPT
                               ![hot[t].cur].delayInfo[hot[t].i].nsecsmax = hot[t].dur]
                /\ hot' = [hot EXCEPT ![t].pc = "tp", ![t].lastMax = 0]
           ELSE /\ opmap' = opmap
                /\ hot' = [hot EXCEPT ![t] = AfterLoadMax(@, stored)]
  /\ UNCHANGED <<cmdstats, rwmutex, sessions, now, LastRefreshTime, maySlowOp,
                 agg, ctl, adm, nevents, seen, pub, slow, swept, passes, objs>>

\* After the histogram: the next window, and after the fifth incrDelayNum,
\* which counts nothing when the duration is below DelayNumMark[0].
AfterTp(h) ==
  IF h.i < IntervalNum - 1
    THEN [h EXCEPT !.pc = "calls", !.i = @ + 1]
  ELSE IF GoDiv(h.dur, UnitsPerMs) >= DelayNumMark[0]
    THEN [h EXCEPT !.pc = "delay", !.i = 0, !.k = 0, !.index = 0]
    ELSE AfterOp(h)

\* Line 384.
HotTp(t) ==
  /\ hot[t].pc = "tp"
  /\ opmap' = [opmap EXCEPT
                 ![hot[t].cur].delayInfo[hot[t].i].tp = @ (+) (hot[t].index :> 1)]
  /\ hot' = [hot EXCEPT ![t] = AfterTp(@)]
  /\ UNCHANGED <<cmdstats, rwmutex, sessions, now, LastRefreshTime, maySlowOp,
                 agg, ctl, adm, nevents, seen, pub, slow, swept, passes, objs>>

\* incrDelayNum's loops: the next window of kind k, then the next kind while
\* the duration reaches its mark.
AfterDelay(h) ==
  IF h.i < IntervalNum - 1
    THEN [h EXCEPT !.i = @ + 1]
  ELSE IF h.k + 1 < DelayKindNum /\ GoDiv(h.dur, UnitsPerMs) >= DelayNumMark[h.k + 1]
    THEN [h EXCEPT !.i = 0, !.k = @ + 1]
    ELSE AfterOp(h)

\* Line 504.
HotDelay(t) ==
  /\ hot[t].pc = "delay"
  /\ opmap' = [opmap EXCEPT
                 ![hot[t].cur].delayInfo[hot[t].i].delayCount[hot[t].k] = @ + 1]
  /\ hot' = [hot EXCEPT ![t] = AfterDelay(@)]
  /\ slow' = IF hot[t].k = 0
               THEN [slow EXCEPT ![hot[t].cur][hot[t].i] =
                                   @ (+) (GoDiv(hot[t].dur, UnitsPerMs) :> 1)]
               ELSE slow
  /\ UNCHANGED <<cmdstats, rwmutex, sessions, now, LastRefreshTime, maySlowOp,
                 agg, ctl, adm, nevents, seen, pub, swept, passes, objs>>

\* Line 722.
HotCmdErrors(t) ==
  /\ hot[t].pc = "cmderrors"
  /\ cmdstats' = [cmdstats EXCEPT !.rediserrors = @ + 1]
  /\ hot' = [hot EXCEPT ![t] = HotIdle]
  /\ UNCHANGED <<opmap, rwmutex, sessions, now, LastRefreshTime, maySlowOp,
                 agg, ctl, adm, nevents, seen, pub, slow, swept, passes, objs>>

\* Every step of a call under way.
HotStep(t) ==
  \/ HotLookup(t) \/ HotAnnounce(t) \/ HotCreate(t)
  \/ HotTotalCalls(t) \/ HotTotalNsecs(t)
  \/ HotCalls(t) \/ HotNsecs(t) \/ HotLoadMax(t) \/ HotCas(t) \/ HotTp(t)

\* ------------------------------------------------------------ SpecMax
\* Concurrent calls on one op and no aggregator: no window is reset.
MaxDurations == {10000, 12000, 20000}

NextMax ==
  \E t \in Threads :
    \/ nevents < Cardinality(Threads) /\ \E d \in MaxDurations : HotCall(t, "GET", d, TypeReply)
    \/ HotStep(t)

SpecMax == Init /\ [][NextMax]_vars

\* ------------------------------------------------------------ clock
Tick(elapsed) ==
  /\ now < StartTime + elapsed
  /\ now' = now + 1
  /\ UNCHANGED <<opmap, cmdstats, rwmutex, sessions, LastRefreshTime, maySlowOp,
                 hot, agg, ctl, adm, nevents, seen, pub, slow, swept, passes, objs>>

\* The time a loop sleeps: refreshPeriod, and one second when it is shorter.
SleepTime(period) == IF period <= 1 THEN 1 ELSE period

\* ------------------------------------------------------------ aggregator goroutine
\* An aggregator that does not look at refreshPeriod before its pass.
AggCheckAlways ==
  /\ agg.pc = "check"
  /\ agg' = [pc |-> "start"]
  /\ UNCHANGED <<opmap, cmdstats, rwmutex, sessions, now, LastRefreshTime, maySlowOp,
                 hot, ctl, adm, nevents, seen, pub, slow, swept, passes, objs>>

\* Line 183: with refreshPeriod <= 0 the loop naps for a second and starts over.
AggCheck ==
  /\ agg.pc = "check"
  /\ agg' = IF cmdstats.refreshPeriod <= 0
              THEN [pc |-> "nap", wake |-> now + 1]
              ELSE [pc |-> "start"]
  /\ UNCHANGED <<opmap, cmdstats, rwmutex, sessions, now, LastRefreshTime, maySlowOp,
                 hot, ctl, adm, nevents, seen, pub, slow, swept, passes, objs>>

AggNap ==
  /\ agg.pc = "nap"
  /\ now >= agg.wake
  /\ agg' = [pc |-> "check"]
  /\ UNCHANGED <<opmap, cmdstats, rwmutex, sessions, now, LastRefreshTime, maySlowOp,
                 hot, ctl, adm, nevents, seen, pub, slow, swept, passes, objs>>

\* Lines 188-194: sample the clock and total, then sleep.
AggStart ==
  /\ agg.pc = "start"
  /\ agg' = [pc |-> "sleep", start |-> now, total |-> cmdstats.total,
             wake |-> now + SleepTime(cmdstats.refreshPeriod)]
  /\ UNCHANGED <<opmap, cmdstats, rwmutex, sessions, now, LastRefreshTime, maySlowOp,
                 hot, ctl, adm, nevents, seen, pub, slow, swept, passes, objs>>

\* Lines 196-198: the process-wide qps over the time slept.
AggWake ==
  /\ agg.pc = "sleep"
  /\ now >= agg.wake
  /\ cmdstats' = [cmdstats EXCEPT
                    !.qps = Normalized(cmdstats.total - agg.total, now - agg.start)]
  /\ agg' = [pc |-> "rlock"]
  /\ UNCHANGED <<opmap, rwmutex, sessions, now, LastRefreshTime, maySlowOp,
                 hot, ctl, adm, nevents, seen, pub, slow, swept, passes, objs>>

\* Line 200.
AggRLock ==
  /\ agg.pc = "rlock"
  /\ CanRLock
  /\ rwmutex' = [rwmutex EXCEPT !.r = @ \cup {"agg"}]
  /\ agg' = [pc |-> "window", i |-> 0]
  /\ passes' = IF cmdstats.refreshPeriod <= 0 THEN [passes EXCEPT !.agg = @ + 1] ELSE passes
  /\ UNCHANGED <<opmap, cmdstats, sessions, now, LastRefreshTime, maySlowOp,
                 hot, ctl, adm, nevents, seen, pub, slow, swept, objs>>

\* An aggregator that refreshes every window on every pass.
AggWindowAlways ==
  /\ agg.pc = "window"
  /\ agg.i < IntervalNum
  /\ agg' = [pc |-> "refresh", i |-> agg.i, todo |-> DOMAIN opmap, o |-> None]
  /\ UNCHANGED <<opmap, cmdstats, rwmutex, sessions, now, LastRefreshTime, maySlowOp,
                 hot, ctl, adm, nevents, seen, pub, slow, swept, passes, objs>>

\* Lines 202-206: the next window, skipped unless its interval has elapsed.
AggWindow ==
  /\ agg.pc = "window"
  /\ agg.i < IntervalNum
  /\ agg' = IF now - LastRefreshTime[agg.i] < IntervalMark[agg.i]
              THEN [agg EXCEPT !.i = @ + 1]
              ELSE [pc |-> "refresh", i |-> agg.i, todo |-> DOMAIN opmap, o |-> None]
  /\ UNCHANGED <<opmap, cmdstats, rwmutex, sessions, now, LastRefreshTime, maySlowOp,
                 hot, ctl, adm, nevents, seen, pub, slow, swept, passes, objs>>

\* Lines 207-209: RefreshOpStats(i) on one more entry of the map.
AggRefresh ==
  /\ agg.pc = "refresh"
  /\ \E o \in agg.todo :
       /\ opmap' = [opmap EXCEPT
                      ![o] = RefreshOpStats(@, agg.i, now - LastRefreshTime[agg.i])]
       /\ agg' = [agg EXCEPT !.todo = @ \ {o}]
       /\ pub' = [pub EXCEPT ![o][agg.i] = [done |-> TRUE, events |-> seen[o][agg.i]]]
       /\ seen' = [seen EXCEPT ![o][agg.i] = EmptyBag]
       /\ slow' = [slow EXCEPT ![o][agg.i] = EmptyBag]
  /\ UNCHANGED <<cmdstats, rwmutex, sessions, now, LastRefreshTime, maySlowOp,
                 hot, ctl, adm, nevents, swept, passes, objs>>

\* Line 210, after the last entry.
AggRefreshed ==
  /\ agg.pc = "refresh"
  /\ agg.todo = {}
  /\ LastRefreshTime' = [LastRefreshTime EXCEPT ![agg.i] = now]
  /\ agg' = [pc |-> "window", i |-> agg.i + 1]
  /\ UNCHANGED <<opmap, cmdstats, rwmutex, sessions, now, maySlowOp,
                 hot, ctl, adm, nevents, seen, pub, slow, swept, passes, objs>>

\* Line 212.
AggRUnlock ==
  /\ agg.pc = "window"
  /\ agg.i = IntervalNum
  /\ rwmutex' = [rwmutex EXCEPT !.r = @ \ {"agg"}]
  /\ agg' = [pc |-> "check"]
  /\ UNCHANGED <<opmap, cmdstats, sessions, now, LastRefreshTime, maySlowOp,
                 hot, ctl, adm, nevents, seen, pub, slow, swept, passes, objs>>

\* The aggregator with refreshPeriod > 0.
AggPass ==
  \/ AggCheck \/ AggStart \/ AggWake \/ AggRLock
  \/ AggWindow \/ AggRefresh \/ AggRefreshed \/ AggRUnlock

Aggregator == AggPass \/ AggNap

\* ------------------------------------------------------------ RefreshOpStats, step by step
\* Lines 207-209 with RefreshOpStats(i) taken apart: the loop picks the next
\* entry of the map ...
AggOp ==
  /\ agg.pc = "refresh"
  /\ \E o \in agg.todo : agg' = [agg EXCEPT !.pc = "qps", !.o = o]
  /\ UNCHANGED <<opmap, cmdstats, rwmutex, sessions, now, LastRefreshTime, maySlowOp,
                 hot, ctl, adm, nevents, seen, pub, slow, swept, passes, objs>>

\* ... lines 488-489 ...
AggQps ==
  /\ agg.pc = "qps"
  /\ opmap' = [opmap EXCEPT ![agg.o].delayInfo[agg.i].qps =
                 Normalized(opmap[agg.o].delayInfo[agg.i].calls,
                            now - LastRefreshTime[agg.i])]
  /\ agg' = [agg EXCEPT !.pc = "tpinfo"]
  /\ UNCHANGED <<cmdstats, rwmutex, sessions, now, LastRefreshTime, maySlowOp,
                 hot, ctl, adm, nevents, seen, pub, slow, swept, passes, objs>>

\* ... line 491, refreshTpInfo publishes the percentiles, tp100 and avg ...
AggRefreshTp ==
  /\ agg.pc = "tpinfo"
  /\ opmap' = [opmap EXCEPT ![agg.o].delayInfo[agg.i] = refreshTpInfo(@)]
  /\ pub' = [pub EXCEPT ![agg.o][agg.i] = [done |-> TRUE, events |-> seen[agg.o][agg.i]]]
  /\ agg' = [agg EXCEPT !.pc = "calls0"]
  /\ UNCHANGED <<cmdstats, rwmutex, sessions, now, LastRefreshTime, maySlowOp,
                 hot, ctl, adm, nevents, seen, slow, swept, passes, objs>>

\* ... line 317, the first store of resetTpInfo ...
AggResetCalls ==
  /\ agg.pc = "calls0"
  /\ opmap' = [opmap EXCEPT ![agg.o].delayInfo[agg.i].calls = 0]
  /\ seen' = [seen EXCEPT ![agg.o][agg.i] = EmptyBag]
  /\ agg' = [agg EXCEPT !.pc = "nsecs0"]
  /\ UNCHANGED <<cmdstats, rwmutex, sessions, now, LastRefreshTime, maySlowOp,
                 hot, ctl, adm, nevents, pub, slow, swept, passes, objs>>

\* ... line 318 ...
AggResetNsecs ==
  /\ agg.pc = "nsecs0"
  /\ opmap' = [opmap EXCEPT ![agg.o].delayInfo[agg.i].nsecs = 0]
  /\ agg' = [agg EXCEPT !.pc = "max0"]
  /\ UNCHANGED <<cmdstats, rwmutex, sessions, now, LastRefreshTime, maySlowOp,
                 hot, ctl, adm, nevents, seen, pub, slow, swept, passes, objs>>

\* ... line 319 ...
AggResetMax ==
  /\ agg.pc = "max0"
  /\ opmap' = [opmap EXCEPT ![agg.o].delayInfo[agg.i].nsecsmax = 0]
  /\ agg' = [agg EXCEPT !.pc = "tp0"]
  /\ UNCHANGED <<cmdstats, rwmutex, sessions, now, LastRefreshTime, maySlowOp,
                 hot, ctl, adm, nevents, seen, pub, slow, swept, passes, objs>>

\* ... line 320: the histogram array is overwritten with zeroes.  An Incr of
\* one of its buckets by a session handler lands before the store of that
\* bucket (and is wiped) or after it (and stays).
AggResetTp ==
  /\ agg.pc = "tp0"
  /\ opmap' = [opmap EXCEPT ![agg.o].delayInfo[agg.i].tp = EmptyBag]
  /\ agg' = [agg EXCEPT !.pc = "delayinfo"]
  /\ UNCHANGED <<cmdstats, rwmutex, sessions, now, LastRefreshTime, maySlowOp,
                 hot, ctl, adm, nevents, seen, pub, slow, swept, passes, objs>>

\* ... line 495 ...
AggRefreshDelay ==
  /\ agg.pc = "delayinfo"
  /\ opmap' = [opmap EXCEPT ![agg.o].delayInfo[agg.i] = refreshDelayInfo(@)]
  /\ agg' = [agg EXCEPT !.pc = "delay0"]
  /\ UNCHANGED <<cmdstats, rwmutex, sessions, now, LastRefreshTime, maySlowOp,
                 hot, ctl, adm, nevents, seen, pub, slow, swept, passes, objs>>

\* ... and line 496: the delayCount array is overwritten with zeroes, and the
\* loop goes on to the next entry.
AggResetDelay ==
  /\ agg.pc = "delay0"
  /\ opmap' = [opmap EXCEPT ![agg.o].delayInfo[agg.i] = resetDelayInfo(@)]
  /\ slow' = [slow EXCEPT ![agg.o][agg.i] = EmptyBag]
  /\ agg' = [pc |-> "refresh", i |-> agg.i, todo |-> agg.todo \ {agg.o}, o |-> None]
  /\ UNCHANGED <<cmdstats, rwmutex, sessions, now, LastRefreshTime, maySlowOp,
                 hot, ctl, adm, nevents, seen, pub, swept, passes, objs>>

AggRefreshSteps ==
  \/ AggOp \/ AggQps \/ AggRefreshTp \/ AggResetCalls \/ AggResetNsecs
  \/ AggResetMax \/ AggResetTp \/ AggRefreshDelay \/ AggResetDelay

\* The aggregator with refreshPeriod > 0 and RefreshOpStats step by step.
AggPassSteps ==
  \/ AggCheck \/ AggStart \/ AggWake \/ AggRLock
  \/ AggWindow \/ AggRefreshSteps \/ AggRefreshed \/ AggRUnlock

\* The aggregator is outside RefreshOpStats.
AggOutside == agg.pc \in {"check", "nap", "start", "sleep", "rlock", "window", "refresh"}

\* ------------------------------------------------------------ SpecHot
\* One session handler, step by step, against the aggregator, step by step.
HotDurations == {3000, 120000}

NextHot ==
  \/ nevents = 0 /\ \E d \in HotDurations : HotCall("t1", "GET", d, TypeReply)
  \/ HotStep("t1") \/ HotDelay("t1")
  \/ Tick(1)
  \/ AggPassSteps

SpecHot == Init /\ [][NextHot]_vars

\* ------------------------------------------------------------ ResetStats
\* Line 675: ResetStats is called and read-locks the registry.
ResetStats ==
  /\ adm.pc = "idle"
  /\ CanRLock
  /\ rwmutex' = [rwmutex EXCEPT !.r = @ \cup {"adm"}]
  /\ adm' = [pc |-> "reset", todo |-> DOMAIN opmap, o |-> None]
  /\ UNCHANGED <<opmap, cmdstats, sessions, now, LastRefreshTime, maySlowOp,
                 hot, agg, ctl, nevents, seen, pub, slow, swept, passes, objs>>

\* A reset that also clears the entry's windowed call counters.
ResetTotalCallsAndWindows ==
  /\ adm.pc = "reset"
  /\ \E o \in adm.todo :
       /\ opmap' = [opmap EXCEPT
                      ![o] = [@ EXCEPT !.totalCalls = 0,
                                       !.delayInfo = [i \in Windows |->
                                                       [@[i] EXCEPT !.calls = 0]]]]
       /\ adm' = [adm EXCEPT !.pc = "totalNsecs", !.o = o]
  /\ UNCHANGED <<cmdstats, rwmutex, sessions, now, LastRefreshTime, maySlowOp,
                 hot, agg, ctl, nevents, seen, pub, slow, swept, passes, objs>>

\* Lines 676-677: the loop picks the next entry and zeroes its totalCalls ...
ResetTotalCalls ==
  /\ adm.pc = "reset"
  /\ \E o \in adm.todo :
       /\ opmap' = [opmap EXCEPT ![o].totalCalls = 0]
       /\ adm' = [adm EXCEPT !.pc = "totalNsecs", !.o = o]
  /\ UNCHANGED <<cmdstats, rwmutex, sessions, now, LastRefreshTime, maySlowOp,
                 hot, agg, ctl, nevents, seen, pub, slow, swept, passes, objs>>

\* ... line 678 ...
ResetTotalNsecs ==
  /\ adm.pc = "totalNsecs"
  /\ opmap' = [opmap EXCEPT ![adm.o].totalNsecs = 0]
  /\ adm' = [adm EXCEPT !.pc = "totalFails"]
  /\ UNCHANGED <<cmdstats, rwmutex, sessions, now, LastRefreshTime, maySlowOp,
                 hot, agg, ctl, nevents, seen, pub, slow, swept, passes, objs>>

\* ... line 679 ...
ResetTotalFails ==
  /\ adm.pc = "totalFails"
  /\ opmap' = [opmap EXCEPT ![adm.o].totalFails = 0]
  /\ adm' = [adm EXCEPT !.pc = "errors"]
  /\ UNCHANGED <<cmdstats, rwmutex, sessions, now, LastRefreshTime, maySlowOp,
                 hot, agg, ctl, nevents, seen, pub, slow, swept, passes, objs>>

\* ... and line 680.
ResetErrors ==
  /\ adm.pc = "errors"
  /\ opmap' = [opmap EXCEPT ![adm.o].rediserrors = 0]
  /\ adm' = [pc |-> "reset", todo |-> adm.todo \ {adm.o}, o |-> None]
  /\ UNCHANGED <<cmdstats, rwmutex, sessions, now, LastRefreshTime, maySlowOp,
                 hot, agg, ctl, nevents, seen, pub, slow, swept, passes, objs>>

\* Line 682, after the last entry.
ResetRUnlock ==
  /\ adm.pc = "reset"
  /\ adm.todo = {}
  /\ rwmutex' = [rwmutex EXCEPT !.r = @ \ {"adm"}]
  /\ adm' = [pc |-> "total"]
  /\ UNCHANGED <<opmap, cmdstats, sessions, now, LastRefreshTime, maySlowOp,
                 hot, agg, ctl, nevents, seen, pub, slow, swept, passes, objs>>

\* Line 684.
ResetCmdTotal ==
  /\ adm.pc = "total"
  /\ cmdstats' = [cmdstats EXCEPT !.total = 0]
  /\ adm' = [pc |-> "fails"]
  /\ UNCHANGED <<opmap, rwmutex, sessions, now, LastRefreshTime, maySlowOp,
                 hot, agg, ctl, nevents, seen, pub, slow, swept, passes, objs>>

\* Line 685.
ResetCmdFails ==
  /\ adm.pc = "fails"
  /\ cmdstats' = [cmdstats EXCEPT !.fails = 0]
  /\ adm' = [pc |-> "cmderrors"]
  /\ UNCHANGED <<opmap, rwmutex, sessions, now, LastRefreshTime, maySlowOp,
                 hot, agg, ctl, nevents, seen, pub, slow, swept, passes, objs>>

\* Line 686.
ResetCmdErrors ==
  /\ adm.pc = "cmderrors"
  /\ cmdstats' = [cmdstats EXCEPT !.rediserrors = 0]
  /\ adm' = [pc |-> "sessions"]
  /\ UNCHANGED <<opmap, rwmutex, sessions, now, LastRefreshTime, maySlowOp,
                 hot, agg, ctl, nevents, seen, pub, slow, swept, passes, objs>>

\* Line 687: sessions.alive is loaded ...
ResetLoadAlive ==
  /\ adm.pc = "sessions"
  /\ adm' = [pc |-> "settotal", alive |-> sessions.alive]
  /\ UNCHANGED <<opmap, cmdstats, rwmutex, sessions, now, LastRefreshTime, maySlowOp,
                 hot, agg, ctl, nevents, seen, pub, slow, swept, passes, objs>>

\* ... and stored in sessions.total, and ResetStats returns.
ResetSessions ==
  /\ adm.pc = "settotal"
  /\ sessions' = [sessions EXCEPT !.total = adm.alive]
  /\ adm' = [pc |-> "idle"]
  /\ UNCHANGED <<opmap, cmdstats, rwmutex, now, LastRefreshTime, maySlowOp,
                 hot, agg, ctl, nevents, seen, pub, slow, swept, passes, objs>>

ResetStatsSteps ==
  \/ ResetStats \/ ResetTotalCalls \/ ResetTotalNsecs \/ ResetTotalFails \/ ResetErrors
  \/ ResetRUnlock \/ ResetCmdTotal \/ ResetCmdFails \/ ResetCmdErrors
  \/ ResetLoadAlive \/ ResetSessions

\* ------------------------------------------------------------ SpecReset
\* One session handler, step by step, against ResetStats, step by step.
ResetDurations == {12000}

NextReset ==
  \/ /\ nevents < MaxEvents
     /\ \E o \in {"GET", "SET"} : \E d \in ResetDurations :
          HotCall("t1", o, d, TypeReply)
  \/ HotStep("t1")
  \/ ResetStatsSteps

SpecReset == Init /\ [][NextReset]_vars

\* ------------------------------------------------------------ slow-op controller goroutine
\* Line 148, left operand: with refreshPeriod <= 0 the loop sleeps a second
\* and starts over.
CtlCheck ==
  /\ ctl.pc = "check"
  /\ ctl' = IF cmdstats.refreshPeriod <= 0
              THEN [pc |-> "nap", wake |-> now + 1]
              ELSE [pc |-> "checkflag"]
  /\ UNCHANGED <<opmap, cmdstats, rwmutex, sessions, now, LastRefreshTime, maySlowOp,
                 hot, agg, adm, nevents, seen, pub, slow, swept, passes, objs>>

\* Line 148, right operand: the same with autoSetSlowFlag off.
CtlCheckFlag ==
  /\ ctl.pc = "checkflag"
  /\ ctl' = IF ~cmdstats.autoSetSlowFlag
              THEN [pc |-> "nap", wake |-> now + 1]
              ELSE [pc |-> "duration"]
  /\ UNCHANGED <<opmap, cmdstats, rwmutex, sessions, now, LastRefreshTime, maySlowOp,
                 hot, agg, adm, nevents, seen, pub, slow, swept, passes, objs>>

\* Lines 149-150.
CtlNap ==
  /\ ctl.pc = "nap"
  /\ now >= ctl.wake
  /\ ctl' = [pc |-> "check"]
  /\ UNCHANGED <<opmap, cmdstats, rwmutex, sessions, now, LastRefreshTime, maySlowOp,
                 hot, agg, adm, nevents, seen, pub, slow, swept, passes, objs>>

\* Line 153.
CtlDuration ==
  /\ ctl.pc = "duration"
  /\ ctl' = [pc |-> "sleep",
             clearSlowDuration |-> cmdstats.refreshPeriod * ClearSlowFlagPeriodRate]
  /\ UNCHANGED <<opmap, cmdstats, rwmutex, sessions, now, LastRefreshTime, maySlowOp,
                 hot, agg, adm, nevents, seen, pub, slow, swept, passes, objs>>

\* Lines 155-159: the sleep begins.
CtlSleep ==
  /\ ctl.pc = "sleep"
  /\ ctl' = [pc |-> "asleep", clearSlowDuration |-> ctl.clearSlowDuration,
             wake |-> now + SleepTime(cmdstats.refreshPeriod)]
  /\ UNCHANGED <<opmap, cmdstats, rwmutex, sessions, now, LastRefreshTime, maySlowOp,
                 hot, agg, adm, nevents, seen, pub, slow, swept, passes, objs>>

\* Line 161: the sleep is over and the clock is read.
CtlWake ==
  /\ ctl.pc = "asleep"
  /\ now >= ctl.wake
  /\ ctl' = [pc |-> "rlock", clearSlowDuration |-> ctl.clearSlowDuration, now |-> now]
  /\ UNCHANGED <<opmap, cmdstats, rwmutex, sessions, now, LastRefreshTime, maySlowOp,
                 hot, agg, adm, nevents, seen, pub, slow, swept, passes, objs>>

\* Line 162.
CtlRLock ==
  /\ ctl.pc = "rlock"
  /\ CanRLock
  /\ rwmutex' = [rwmutex EXCEPT !.r = @ \cup {"ctl"}]
  /\ ctl' = [ctl EXCEPT !.pc = "flag"]
  /\ passes' = IF cmdstats.refreshPeriod <= 0 THEN [passes EXCEPT !.ctl = @ + 1] ELSE passes
  /\ UNCHANGED <<opmap, cmdstats, sessions, now, LastRefreshTime, maySlowOp,
                 hot, agg, adm, nevents, seen, pub, slow, swept, objs>>

\* The controller without the check of line 166.
CtlFlagUnchecked ==
  /\ ctl.pc = "flag"
  /\ ctl' = [pc |-> "loop", clearSlowDuration |-> ctl.clearSlowDuration,
             now |-> ctl.now, todo |-> DOMAIN opmap]
  /\ UNCHANGED <<opmap, cmdstats, rwmutex, sessions, now, LastRefreshTime, maySlowOp,
                 hot, agg, adm, nevents, seen, pub, slow, swept, passes, objs>>

\* Line 166: autoSetSlowFlag is read again, under the read lock.
CtlFlag ==
  /\ ctl.pc = "flag"
  /\ ctl' = [pc |-> "loop", clearSlowDuration |-> ctl.clearSlowDuration,
             now |-> ctl.now,
             todo |-> IF cmdstats.autoSetSlowFlag THEN DOMAIN opmap ELSE {}]
  /\ UNCHANGED <<opmap, cmdstats, rwmutex, sessions, now, LastRefreshTime, maySlowOp,
                 hot, agg, adm, nevents, seen, pub, slow, swept, passes, objs>>

\* A controller loop body without the else-if branch of lines 171-174.
CtlOpNoClear ==
  /\ ctl.pc = "loop"
  /\ \E o \in ctl.todo :
       LET v == opmap[o]
       IN  /\ ctl' = [ctl EXCEPT !.todo = @ \ {o}]
           /\ IF v.delayInfo[0].tp100 * 1000 > cmdstats.logSlowerThan /\ v.opstr # "ALL"
                THEN /\ maySlowOp' = [maySlowOp EXCEPT ![v.opstr] = "set"]
                     /\ opmap' = [opmap EXCEPT ![o].lastSetSlowTime = ctl.now]
                ELSE UNCHANGED <<maySlowOp, opmap>>
  /\ UNCHANGED <<cmdstats, rwmutex, sessions, now, LastRefreshTime,
                 hot, agg, adm, nevents, seen, pub, slow, swept, passes, objs>>

\* Lines 167-175 for one more entry v of the map: setMaySlowOpFlag and
\* lastSetSlowTime, or clearMaySlowOpFlag and lastClearSlowTime, or nothing.
\* tp100 is in ms and logSlowerThan is compared with tp100 * 1e3.
CtlOp ==
  /\ ctl.pc = "loop"
  /\ \E o \in ctl.todo :
       LET v == opmap[o]
       IN  /\ ctl' = [ctl EXCEPT !.todo = @ \ {o}]
           /\ IF v.delayInfo[0].tp100 * 1000 > cmdstats.logSlowerThan /\ v.opstr # "ALL"
                THEN /\ maySlowOp' = [maySlowOp EXCEPT ![v.opstr] = "set"]
                     /\ opmap' = [opmap EXCEPT ![o].lastSetSlowTime = ctl.now]
              ELSE IF /\ v.lastSetSlowTime >= v.lastClearSlowTime
                      /\ ctl.now - v.lastSetSlowTime >= ctl.clearSlowDuration
                THEN /\ maySlowOp' = [maySlowOp EXCEPT ![v.opstr] = "clear"]
                     /\ opmap' = [opmap EXCEPT ![o].lastClearSlowTime = ctl.now]
                ELSE UNCHANGED <<maySlowOp, opmap>>
  /\ UNCHANGED <<cmdstats, rwmutex, sessions, now, LastRefreshTime,
                 hot, agg, adm, nevents, seen, pub, slow, swept, passes, objs>>

\* Line 177.
CtlRUnlock ==
  /\ ctl.pc = "loop"
  /\ ctl.todo = {}
  /\ rwmutex' = [rwmutex EXCEPT !.r = @ \ {"ctl"}]
  /\ ctl' = [pc |-> "check"]
  /\ UNCHANGED <<opmap, cmdstats, sessions, now, LastRefreshTime, maySlowOp,
                 hot, agg, adm, nevents, seen, pub, slow, swept, passes, objs>>

Controller ==
  \/ CtlCheck \/ CtlCheckFlag \/ CtlNap \/ CtlDuration \/ CtlSleep
  \/ CtlWake \/ CtlRLock \/ CtlFlag \/ CtlOp \/ CtlRUnlock

\* ------------------------------------------------------------ StatsSetAutoSetSlowFlag
\* Line 584: StatsSetAutoSetSlowFlag(autoset) is called and stores the flag.
StatsSetAutoSetSlowFlag(autoset) ==
  /\ adm.pc = "idle"
  /\ cmdstats' = [cmdstats EXCEPT !.autoSetSlowFlag = autoset]
  /\ adm' = [pc |-> "isfalse", autoset |-> autoset]
  /\ swept' = IF autoset THEN FALSE ELSE swept
  /\ UNCHANGED <<opmap, rwmutex, sessions, now, LastRefreshTime, maySlowOp,
                 hot, agg, ctl, nevents, seen, pub, slow, passes, objs>>

\* Line 588: the flag is read back; the call returns when it is on.
SweepCheck ==
  /\ adm.pc = "isfalse"
  /\ adm' = IF ~cmdstats.autoSetSlowFlag
              THEN [adm EXCEPT !.pc = "lock"]
              ELSE [pc |-> "idle"]
  /\ UNCHANGED <<opmap, cmdstats, rwmutex, sessions, now, LastRefreshTime, maySlowOp,
                 hot, agg, ctl, nevents, seen, pub, slow, swept, passes, objs>>

\* Line 589: Lock() announces the writer ...
SweepAnnounce ==
  /\ adm.pc = "lock"
  /\ CanAnnounce
  /\ rwmutex' = [rwmutex EXCEPT !.pend = {"adm"}]
  /\ adm' = [adm EXCEPT !.pc = "locking"]
  /\ UNCHANGED <<opmap, cmdstats, sessions, now, LastRefreshTime, maySlowOp,
                 hot, agg, ctl, nevents, seen, pub, slow, swept, passes, objs>>

\* ... and returns once the readers have left.
SweepLock ==
  /\ adm.pc = "locking"
  /\ CanLock("adm")
  /\ rwmutex' = [rwmutex EXCEPT !.w = "adm", !.pend = {}]
  /\ adm' = [pc |-> "sweep", autoset |-> adm.autoset, todo |-> DOMAIN opmap]
  /\ UNCHANGED <<opmap, cmdstats, sessions, now, LastRefreshTime, maySlowOp,
                 hot, agg, ctl, nevents, seen, pub, slow, swept, passes, objs>>

\* Lines 590-593 for one more entry of the map.
SweepOp ==
  /\ adm.pc = "sweep"
  /\ \E o \in adm.todo :
       /\ maySlowOp' = [maySlowOp EXCEPT ![opmap[o].opstr] = "clear"]
       /\ adm' = [adm EXCEPT !.todo = @ \ {o}]
  /\ UNCHANGED <<opmap, cmdstats, rwmutex, sessions, now, LastRefreshTime,
                 hot, agg, ctl, nevents, seen, pub, slow, swept, passes, objs>>

\* A StatsSetAutoSetSlowFlag(false) that returns without the Unlock of line 594.
SweepReturnLocked ==
  /\ adm.pc = "sweep"
  /\ adm.todo = {}
  /\ adm' = [pc |-> "idle"]
  /\ swept' = TRUE
  /\ UNCHANGED <<opmap, cmdstats, rwmutex, sessions, now, LastRefreshTime, maySlowOp,
                 hot, agg, ctl, nevents, seen, pub, slow, passes, objs>>

\* Line 594, and StatsSetAutoSetSlowFlag(false) returns.
SweepUnlock ==
  /\ adm.pc = "sweep"
  /\ adm.todo = {}
  /\ rwmutex' = [rwmutex EXCEPT !.w = None]
  /\ adm' = [pc |-> "idle"]
  /\ swept' = TRUE
  /\ UNCHANGED <<opmap, cmdstats, sessions, now, LastRefreshTime, maySlowOp,
                 hot, agg, ctl, nevents, seen, pub, slow, passes, objs>>

Sweep == SweepCheck \/ SweepAnnounce \/ SweepLock \/ SweepOp \/ SweepUnlock

\* ------------------------------------------------------------ Spec
\* Whole events, the aggregator, the slow-op controller and the admin turning
\* autoSetSlowFlag on and off.
SpecDurations == {12000}

Call ==
  /\ nevents = 0
  /\ \E d \in SpecDurations : IncrOpStats("GET", d, TypeReply)

Next ==
  \/ Call
  \/ Tick(MaxCtlElapsed)
  \/ AggPass
  \/ Controller
  \/ \E autoset \in BOOLEAN : StatsSetAutoSetSlowFlag(autoset)
  \/ Sweep

Spec == Init /\ [][Next]_vars

\* ------------------------------------------------------------ StatsSetLogSlowerThan
\* Lines 577-581: the argument is stored as it is when it is not negative.
StatsSetLogSlowerThan(ms) ==
  /\ adm.pc = "idle"
  /\ cmdstats' = IF ms >= 0 THEN [cmdstats EXCEPT !.logSlowerThan = ms] ELSE cmdstats
  /\ UNCHANGED <<opmap, rwmutex, sessions, now, LastRefreshTime, maySlowOp,
                 hot, agg, ctl, adm, nevents, seen, pub, slow, swept, passes, objs>>

\* ------------------------------------------------------------ SpecThreshold
\* One event of 12 ms, the aggregator, the controller with autoSetSlowFlag
\* turned on, and the admin setting logSlowerThan.
ThresholdValues == {-1, 0, 50}

NextThreshold ==
  \/ Call
  \/ Tick(MaxElapsed)
  \/ AggPass
  \/ Controller
  \/ StatsSetAutoSetSlowFlag(TRUE) \/ SweepCheck
  \/ \E ms \in ThresholdValues : StatsSetLogSlowerThan(ms)

SpecThreshold == Init /\ [][NextThreshold]_vars

\* ------------------------------------------------------------ SpecLive
\* One slow GET event in the first second, then silence, with autoSetSlowFlag
\* turned on once and never off.  The work of a goroutine between
\* two sleeps takes microseconds and its sleeps a second: the clock advances
\* only while both background goroutines sleep, and each of them keeps running.
LiveDurations == {60000}

AggSleeping == agg.pc \in {"sleep", "nap"} /\ now < agg.wake
CtlSleeping == ctl.pc \in {"asleep", "nap"} /\ now < ctl.wake

LiveCall ==
  /\ nevents = 0
  /\ now = StartTime
  /\ \E d \in LiveDurations : IncrOpStats("GET", d, TypeReply)

LiveTick ==
  /\ AggSleeping
  /\ CtlSleeping
  /\ Tick(MaxLiveElapsed)

NextLive ==
  \/ LiveCall
  \/ LiveTick
  \/ AggPass
  \/ Controller
  \/ ~cmdstats.autoSetSlowFlag /\ StatsSetAutoSetSlowFlag(TRUE)
  \/ SweepCheck

SpecLive ==
  /\ Init
  /\ [][NextLive]_vars
  /\ WF_vars(LiveTick)
  /\ WF_vars(AggPass)
  /\ WF_vars(Controller)

\* ------------------------------------------------------------ SpecAnomaly
\* Two concurrent calls on one op, step by step, against the aggregator: a
\* window can be refreshed between a call's calls.Incr() and its tp[index].Incr().
AnomalyDurations == {12000}

NextAnomaly ==
  \/ \E t \in Threads :
       \/ nevents < Cardinality(Threads)
            /\ \E d \in AnomalyDurations : HotCall(t, "GET", d, TypeReply)
       \/ HotStep(t)
  \/ Tick(1)
  \/ AggPass

SpecAnomaly == Init /\ [][NextAnomaly]_vars

\* ------------------------------------------------------------ SpecZero
\* incrOpTotal, line 690.
incrOpTotal ==
  /\ cmdstats' = [cmdstats EXCEPT !.total = @ + 1]
  /\ nevents' = nevents + 1
  /\ UNCHANGED <<opmap, rwmutex, sessions, now, LastRefreshTime, maySlowOp,
                 hot, agg, ctl, adm, seen, pub, slow, swept, passes, objs>>

\* incrOpFails(r, err) with r.OpStr = opstr, as one step.
incrOpFails(opstr) ==
  /\ CanRLock
  /\ {opstr, "ALL"} \subseteq DOMAIN opmap \/ (CanAnnounce /\ rwmutex.r = {})
  /\ LET m1 == getOpStats(opmap, opstr)
         m2 == [m1 EXCEPT ![opstr].totalFails = @ + 1]
         m3 == getOpStats(m2, "ALL")
     IN  opmap' = [m3 EXCEPT !["ALL"].totalFails = @ + 1]
  /\ cmdstats' = [cmdstats EXCEPT !.fails = @ + 1]
  /\ nevents' = nevents + 1
  /\ objs' = Allocated(Allocated(objs, opmap, opstr), opmap, "ALL")
  /\ UNCHANGED <<rwmutex, sessions, now, LastRefreshTime, maySlowOp,
                 hot, agg, ctl, adm, seen, pub, slow, swept, passes>>

\* Whole requests, each counted, answered or failed while no ResetStats is
\* running, and ResetStats step by step.
ZeroDurations == {12000}

ZeroCall ==
  /\ adm.pc = "idle"
  /\ nevents < MaxEvents
  /\ \/ \E o \in {"GET", "SET"}, d \in ZeroDurations, rt \in RespTypes :
          IncrOpStats(o, d, rt)
     \/ \E o \in {"GET", "SET"} : incrOpFails(o)
     \/ incrOpTotal

NextZero == ZeroCall \/ ResetStatsSteps

SpecZero == Init /\ [][NextZero]_vars

\* ------------------------------------------------------------ SpecPeriod
\* StatsSetRefreshPeriod(d), lines 571-575, d in seconds.
StatsSetRefreshPeriod(d) ==
  /\ adm.pc = "idle"
  /\ cmdstats' = IF d >= 0 THEN [cmdstats EXCEPT !.refreshPeriod = d] ELSE cmdstats
  /\ passes' = IF d >= 0 THEN [agg |-> 0, ctl |-> 0] ELSE passes
  /\ UNCHANGED <<opmap, rwmutex, sessions, now, LastRefreshTime, maySlowOp,
                 hot, agg, ctl, adm, nevents, seen, pub, slow, swept, objs>>

\* Both background loops, one event on GET, autoSetSlowFlag turned on once and
\* refreshPeriod switched between 0 and 1 s at any moment.
PeriodValues == {-1, 0, 1}

NextPeriod ==
  \/ Call
  \/ Tick(MaxElapsed)
  \/ Aggregator
  \/ Controller
  \/ ~cmdstats.autoSetSlowFlag /\ StatsSetAutoSetSlowFlag(TRUE)
  \/ SweepCheck
  \/ \E d \in PeriodValues : StatsSetRefreshPeriod(d)

SpecPeriod == Init /\ [][NextPeriod]_vars

\* ------------------------------------------------------------ SpecCadence
\* One event on GET and the aggregator, with the clock running past the
\* interval of the second window.
CadenceDurations == {12000}

CadenceCall ==
  /\ nevents = 0
  /\ \E d \in CadenceDurations : IncrOpStats("GET", d, TypeReply)

NextCadence == CadenceCall \/ Tick(MaxCadenceElapsed) \/ AggPass

SpecCadence == Init /\ [][NextCadence]_vars

\* ------------------------------------------------------------ SpecLock
\* One session handler, step by step, against StatsSetAutoSetSlowFlag(false),
\* step by step: calls on an op that is registered meet the sweep's write lock.
LockDurations == {12000}

NextLock ==
  \/ /\ nevents < MaxEvents
     /\ \E o \in {"GET", "SET"} : \E d \in LockDurations :
          HotCall("t1", o, d, TypeReply)
  \/ HotStep("t1")
  \/ StatsSetAutoSetSlowFlag(FALSE)
  \/ Sweep

SpecLock == Init /\ [][NextLock]_vars

\* ------------------------------------------------------------ SpecDelay
\* One of the eight assignments of refreshDelayInfo (lines 324-331): the
\* published field of kind k takes the value loaded from delayCount[k].
PublishDelay(d, k) ==
  CASE k = 0 -> [d EXCEPT !.delay50ms = d.delayCount[0]]
    [] k = 1 -> [d EXCEPT !.delay100ms = d.delayCount[1]]
    [] k = 2 -> [d EXCEPT !.delay200ms = d.delayCount[2]]
    [] k = 3 -> [d EXCEPT !.delay300ms = d.delayCount[3]]
    [] k = 4 -> [d EXCEPT !.delay500ms = d.delayCount[4]]
    [] k = 5 -> [d EXCEPT !.delay1s = d.delayCount[5]]
    [] k = 6 -> [d EXCEPT !.delay2s = d.delayCount[6]]
    [] k = 7 -> [d EXCEPT !.delay3s = d.delayCount[7]]

\* refreshDelayInfo one load at a time: each delayCount[k].Int64() is an
\* atomic load of its own, and session handlers run between two of them.
AggLoadDelay ==
  /\ agg.pc = "delayinfo"
  /\ LET k == IF "k" \in DOMAIN agg THEN agg.k ELSE 0
     IN  /\ opmap' = [opmap EXCEPT ![agg.o].delayInfo[agg.i] = PublishDelay(@, k)]
         /\ agg' = IF k + 1 < DelayKindNum
                     THEN [pc |-> "delayinfo", i |-> agg.i, todo |-> agg.todo,
                           o |-> agg.o, k |-> k + 1]
                     ELSE [pc |-> "delay0", i |-> agg.i, todo |-> agg.todo, o |-> agg.o]
  /\ UNCHANGED <<cmdstats, rwmutex, sessions, now, LastRefreshTime, maySlowOp,
                 hot, ctl, adm, nevents, seen, pub, slow, swept, passes, objs>>

\* The aggregator with refreshPeriod > 0, RefreshOpStats step by step and
\* refreshDelayInfo load by load.
AggPassLoads ==
  \/ AggCheck \/ AggStart \/ AggWake \/ AggRLock \/ AggWindow
  \/ AggOp \/ AggQps \/ AggRefreshTp \/ AggResetCalls \/ AggResetNsecs
  \/ AggResetMax \/ AggResetTp \/ AggLoadDelay \/ AggResetDelay
  \/ AggRefreshed \/ AggRUnlock

\* One session handler with an event of 120 ms, step by step, against that
\* aggregator.
DelayDurations == {120000}

NextDelay ==
  \/ nevents = 0 /\ \E d \in DelayDurations : HotCall("t1", "GET", d, TypeReply)
  \/ HotStep("t1") \/ HotDelay("t1")
  \/ Tick(1)
  \/ AggPassLoads

SpecDelay == Init /\ [][NextDelay]_vars

\* ------------------------------------------------------------ SpecSessions
\* incrSessions, line 733: sessions.total.Incr() ...
IncrSessionsTotal(t) ==
  /\ hot[t].pc = "idle"
  /\ sessions.total < MaxSessions
  /\ sessions.alive + Cardinality({u \in Threads : hot[u].pc = "alive"}) < MaxSessions
  /\ sessions' = [sessions EXCEPT !.total = @ + 1]
  /\ hot' = [hot EXCEPT ![t].pc = "alive"]
  /\ UNCHANGED <<opmap, cmdstats, rwmutex, now, LastRefreshTime, maySlowOp,
                 agg, ctl, adm, nevents, seen, pub, slow, swept, passes, objs>>

\* ... and line 734: sessions.alive.Incr(), and incrSessions returns.
IncrSessionsAlive(t) ==
  /\ hot[t].pc = "alive"
  /\ sessions' = [sessions EXCEPT !.alive = @ + 1]
  /\ hot' = [hot EXCEPT ![t] = HotIdle]
  /\ UNCHANGED <<opmap, cmdstats, rwmutex, now, LastRefreshTime, maySlowOp,
                 agg, ctl, adm, nevents, seen, pub, slow, swept, passes, objs>>

\* decrSessions, lines 737-739, called for a session that incrSessions has
\* counted.
decrSessions ==
  /\ sessions.alive > 0
  /\ sessions' = [sessions EXCEPT !.alive = @ - 1]
  /\ UNCHANGED <<opmap, cmdstats, rwmutex, now, LastRefreshTime, maySlowOp,
                 hot, agg, ctl, adm, nevents, seen, pub, slow, swept, passes, objs>>

\* Sessions opening and closing, one event on GET, and ResetStats step by step.
SessionsDurations == {12000}

NextSessions ==
  \/ \E t \in Threads : IncrSessionsTotal(t) \/ IncrSessionsAlive(t)
  \/ decrSessions
  \/ nevents = 0 /\ \E d \in SessionsDurations : IncrOpStats("GET", d, TypeReply)
  \/ ResetStatsSteps

SpecSessions == Init /\ [][NextSessions]_vars

\* ------------------------------------------------------------ SpecProtocol
\* opStats.incrOpStats (lines 557-569) on the entry getOpStats returned, as
\* one step: it takes no lock.
HotRecord(t) ==
  /\ hot[t].pc = "totalCalls"
  /\ opmap' = [opmap EXCEPT ![hot[t].cur] = opIncrOpStats(@, hot[t].dur, hot[t].rt)]
  /\ seen' = Record(seen, hot[t].cur, hot[t].dur)
  /\ slow' = IF GoDiv(hot[t].dur, UnitsPerMs) >= DelayNumMark[0]
               THEN Record(slow, hot[t].cur, GoDiv(hot[t].dur, UnitsPerMs))
               ELSE slow
  /\ hot' = [hot EXCEPT ![t] = AfterOp(@)]
  /\ UNCHANGED <<cmdstats, rwmutex, sessions, now, LastRefreshTime, maySlowOp,
                 agg, ctl, adm, nevents, pub, swept, passes, objs>>

\* GetOpStatsByInterval, lines 663-666: the read lock is taken and the map is
\* ranged over; the snapshots it builds are local to the caller.
SnapRLock(t) ==
  /\ hot[t].pc = "idle"
  /\ CanRLock
  /\ rwmutex' = [rwmutex EXCEPT !.r = @ \cup {t}]
  /\ hot' = [hot EXCEPT ![t].pc = "snapshot"]
  /\ UNCHANGED <<opmap, cmdstats, sessions, now, LastRefreshTime, maySlowOp,
                 agg, ctl, adm, nevents, seen, pub, slow, swept, passes, objs>>

\* Line 667, and GetOpStatsByInterval sorts its slice and returns; the
\* goroutine that called it ends.
SnapRUnlock(t) ==
  /\ hot[t].pc = "snapshot"
  /\ rwmutex' = [rwmutex EXCEPT !.r = @ \ {t}]
  /\ hot' = [hot EXCEPT ![t].pc = "returned"]
  /\ UNCHANGED <<opmap, cmdstats, sessions, now, LastRefreshTime, maySlowOp,
                 agg, ctl, adm, nevents, seen, pub, slow, swept, passes, objs>>

\* ResetStats, lines 676-681: the loop over the map, as one step under the
\* read lock.
ResetLoop ==
  /\ adm.pc = "reset"
  /\ adm.todo # {}
  /\ opmap' = [o \in DOMAIN opmap |->
                 IF o \in adm.todo
                   THEN [opmap[o] EXCEPT !.totalCalls = 0, !.totalNsecs = 0,
                                          !.totalFails = 0, !.rediserrors = 0]
                   ELSE opmap[o]]
  /\ adm' = [adm EXCEPT !.todo = {}]
  /\ UNCHANGED <<cmdstats, rwmutex, sessions, now, LastRefreshTime, maySlowOp,
                 hot, agg, ctl, nevents, seen, pub, slow, swept, passes, objs>>

\* ResetStats, lines 684-687: the stores that follow RUnlock, as one step,
\* and ResetStats returns.
ResetTail ==
  /\ adm.pc = "total"
  /\ cmdstats' = [cmdstats EXCEPT !.total = 0, !.fails = 0, !.rediserrors = 0]
  /\ sessions' = [sessions EXCEPT !.total = sessions.alive]
  /\ adm' = [pc |-> "idle"]
  /\ UNCHANGED <<opmap, rwmutex, now, LastRefreshTime, maySlowOp,
                 hot, agg, ctl, nevents, seen, pub, slow, swept, passes, objs>>

\* StatsSetAutoSetSlowFlag(false), lines 590-593: the loop over the map, as
\* one step under the write lock.
SweepLoop ==
  /\ adm.pc = "sweep"
  /\ adm.todo # {}
  /\ maySlowOp' = [s \in DOMAIN maySlowOp |->
                     IF \E o \in adm.todo : opmap[o].opstr = s
                       THEN "clear"
                       ELSE maySlowOp[s]]
  /\ adm' = [adm EXCEPT !.todo = {}]
  /\ UNCHANGED <<opmap, cmdstats, rwmutex, sessions, now, LastRefreshTime,
                 hot, agg, ctl, nevents, seen, pub, slow, swept, passes, objs>>

\* The windows whose interval has elapsed, lines 203-205.
DueWindows == {i \in Windows : now - LastRefreshTime[i] >= IntervalMark[i]}

\* The aggregator's locked section, lines 201-211, as one step: every due
\* window of every entry is refreshed and its LastRefreshTime is set.
AggLocked ==
  /\ agg.pc = "window"
  /\ agg.i = 0
  /\ opmap' = [o \in DOMAIN opmap |->
                 [opmap[o] EXCEPT !.delayInfo =
                    [i \in Windows |->
                       IF i \in DueWindows
                         THEN RefreshOpStats(opmap[o], i, now - LastRefreshTime[i]).delayInfo[i]
                         ELSE opmap[o].delayInfo[i]]]]
  /\ pub' = [o \in DOMAIN pub |->
               IF o \in DOMAIN opmap
                 THEN [i \in Windows |->
                         IF i \in DueWindows
                           THEN [done |-> TRUE, events |-> seen[o][i]]
                           ELSE pub[o][i]]
                 ELSE pub[o]]
  /\ seen' = [o \in DOMAIN seen |->
                IF o \in DOMAIN opmap
                  THEN [i \in Windows |-> IF i \in DueWindows THEN EmptyBag ELSE seen[o][i]]
                  ELSE seen[o]]
  /\ slow' = [o \in DOMAIN slow |->
                IF o \in DOMAIN opmap
                  THEN [i \in Windows |-> IF i \in DueWindows THEN EmptyBag ELSE slow[o][i]]
                  ELSE slow[o]]
  /\ LastRefreshTime' = [i \in Windows |-> IF i \in DueWindows THEN now ELSE LastRefreshTime[i]]
  /\ agg' = [pc |-> "window", i |-> IntervalNum]
  /\ UNCHANGED <<cmdstats, rwmutex, sessions, now, maySlowOp,
                 hot, ctl, adm, nevents, swept, passes, objs>>

\* What lines 168-174 do with the entry v: "set", "clear" or "none".
CtlVerdict(v) ==
  IF v.delayInfo[0].tp100 * 1000 > cmdstats.logSlowerThan /\ v.opstr # "ALL"
    THEN "set"
  ELSE IF /\ v.lastSetSlowTime >= v.lastClearSlowTime
          /\ ctl.now - v.lastSetSlowTime >= ctl.clearSlowDuration
    THEN "clear"
    ELSE "none"

\* The controller's locked section, lines 163-176, as one step: the flag is
\* read again and, when it is on, every entry of the map is visited.
CtlLocked ==
  /\ ctl.pc = "flag"
  /\ LET todo == IF cmdstats.autoSetSlowFlag THEN DOMAIN opmap ELSE {}
     IN  /\ opmap' = [o \in DOMAIN opmap |->
                        IF o \notin todo THEN opmap[o]
                        ELSE IF CtlVerdict(opmap[o]) = "set"
                          THEN [opmap[o] EXCEPT !.lastSetSlowTime = ctl.now]
                        ELSE IF CtlVerdict(opmap[o]) = "clear"
                          THEN [opmap[o] EXCEPT !.lastClearSlowTime = ctl.now]
                          ELSE opmap[o]]
         /\ maySlowOp' = [s \in DOMAIN maySlowOp |->
                            IF \E o \in todo : opmap[o].opstr = s /\ CtlVerdict(opmap[o]) # "none"
                              THEN CtlVerdict(opmap[CHOOSE o \in todo : opmap[o].opstr = s])
                              ELSE maySlowOp[s]]
  /\ ctl' = [pc |-> "loop", clearSlowDuration |-> ctl.clearSlowDuration,
             now |-> ctl.now, todo |-> {}]
  /\ UNCHANGED <<cmdstats, rwmutex, sessions, now, LastRefreshTime,
                 hot, agg, adm, nevents, seen, pub, slow, swept, passes, objs>>

\* The goroutine t1 reports one event, step by step through getOpStats, then
\* calls GetOpStatsByInterval and ends.
ProtocolDurations == {12000}

ProtocolCall ==
  \/ /\ nevents = 0
     /\ \E d \in ProtocolDurations : HotCall("t1", "GET", d, TypeReply)
  \/ /\ nevents = 1
     /\ SnapRLock("t1")

ProtocolStep ==
  \/ HotLookup("t1") \/ HotAnnounce("t1") \/ HotCreate("t1") \/ HotRecord("t1")
  \/ SnapRUnlock("t1")

\* The admin's calls: autoSetSlowFlag is turned on once and off once, and
\* after that ResetStats is called once the event is counted in both entries.
ProtocolAdminCall ==
  \/ ~cmdstats.autoSetSlowFlag /\ ~swept /\ StatsSetAutoSetSlowFlag(TRUE)
  \/ cmdstats.autoSetSlowFlag /\ StatsSetAutoSetSlowFlag(FALSE)
  \/ /\ swept
     /\ {"GET", "ALL"} \subseteq DOMAIN opmap
     /\ \A o \in DOMAIN opmap : opmap[o].totalCalls > 0
     /\ ResetStats

\* The admin's steps once its call has begun.
ProtocolAdminStep ==
  \/ SweepCheck \/ SweepAnnounce \/ SweepLock \/ SweepLoop \/ SweepUnlock
  \/ ResetLoop \/ ResetRUnlock \/ ResetTail

\* The clock advances while both background goroutines sleep.
ProtocolTick == AggSleeping /\ CtlSleeping /\ Tick(1)

\* The aggregator and the controller with their locked sections as one step.
ProtocolAgg ==
  \/ AggCheck \/ AggStart \/ AggWake \/ AggRLock \/ AggLocked \/ AggRUnlock

ProtocolCtl ==
  \/ CtlCheck \/ CtlCheckFlag \/ CtlNap \/ CtlDuration \/ CtlSleep
  \/ CtlWake \/ CtlRLock \/ CtlLocked \/ CtlRUnlock

NextProtocol ==
  \/ ProtocolCall \/ ProtocolStep
  \/ ProtocolAdminCall
  \/ ProtocolAdminStep
  \/ ProtocolTick
  \/ ProtocolAgg
  \/ ProtocolCtl

\* Every goroutine that can take a step eventually takes one.
SpecProtocol ==
  /\ Init /\ [][NextProtocol]_vars
  /\ WF_vars(ProtocolStep)
  /\ WF_vars(ProtocolAdminStep)
  /\ WF_vars(ProtocolTick)
  /\ WF_vars(ProtocolAgg)
  /\ WF_vars(ProtocolCtl)

\* ------------------------------------------------------------ SpecBucket
\* One event of every duration up to MaxBucketMs, at both ends of its
\* millisecond, fed to a fresh engine.
BucketDurations ==
  {ms * UnitsPerMs + f : ms \in 0 .. MaxBucketMs, f \in {0, UnitsPerMs - 1}}
    \cup {-1, -UnitsPerMs}

BucketCall ==
  /\ nevents = 0
  /\ \E d \in BucketDurations : IncrOpStats("GET", d, TypeReply)

SpecBucket == Init /\ [][BucketCall]_vars

\* ------------------------------------------------------------ SpecRefresh
\* Whole events and the aggregator: every RefreshOpStats runs with no update
\* of its window in progress.
RefreshDurations == {3000, 7500, 12000}

RefreshCall ==
  /\ nevents < MaxEvents
  /\ \E d \in RefreshDurations : IncrOpStats("GET", d, TypeReply)

NextRefresh == RefreshCall \/ Tick(MaxElapsed) \/ AggPass

SpecRefresh == Init /\ [][NextRefresh]_vars

\* ------------------------------------------------------------ SpecPercentile
\* One window fed up to MaxTpEvents events before the aggregator's first pass
\* over it: enough events for the four percentile ranks to differ.
PercentileDurations == {3000, 60000}

PercentileCall ==
  /\ nevents < MaxTpEvents
  /\ \A o \in OpStrs : ~pub[o][0].done
  /\ \E d \in PercentileDurations : IncrOpStats("GET", d, TypeReply)

NextPercentile == PercentileCall \/ Tick(1) \/ AggPass

SpecPercentile == Init /\ [][NextPercentile]_vars

\* ------------------------------------------------------------ claims
MaxOf(S) == CHOOSE x \in S : \A y \in S : y <= x
\* floor(d / 1e6)
FloorMs(d) == d \div UnitsPerMs

\* C9: for every duration d, with d_ms = floor(d / 1e6), the one bucket the
\* event increments is an index i in 0..69 with tpdelay[i] >= d_ms and, if
\* i > 0, tpdelay[i-1] < d_ms, except that every d_ms > 3200 lands in bucket
\* 69; and 1, 5, 6, 200, 201, 700, 701, 3200, 5000 ms land in buckets
\* 0, 0, 1, 39, 40, 59, 60, 69, 69.
C9_BucketIndex ==
  \A o \in DOMAIN opmap, w \in Windows :
    BagCardinality(seen[o][w]) = 1 =>
      LET d_ms == FloorMs(MaxOf(BagToSet(seen[o][w])))
          hit == {i \in Buckets : CopiesIn(i, opmap[o].delayInfo[w].tp) > 0}
      IN  /\ Cardinality(hit) = 1
          /\ \A i \in hit :
               /\ CopiesIn(i, opmap[o].delayInfo[w].tp) = 1
               /\ i \in 0 .. 69
               /\ d_ms <= 3200 => tpdelay[i] >= d_ms /\ (i > 0 => tpdelay[i - 1] < d_ms)
               /\ d_ms > 3200 => i = 69
               /\ \A p \in {<<1, 0>>, <<5, 0>>, <<6, 1>>, <<200, 39>>, <<201, 40>>,
                            <<700, 59>>, <<701, 60>>, <<3200, 69>>, <<5000, 69>>} :
                    d_ms = p[1] => i = p[2]

\* C9 witness: an event of 701 ms has been counted in bucket 60 of window 0.
C9_Witness ==
  /\ "GET" \in DOMAIN opmap
  /\ seen["GET"][0] = (701 * UnitsPerMs :> 1)
  /\ CopiesIn(60, opmap["GET"].delayInfo[0].tp) = 1

\* C6 as claimed: after a pass over a window that saw N >= 1 events with
\* maximum duration D, the published tp100 equals floor(D / 1e6).
C6_Tp100IsMax ==
  \A o \in DOMAIN opmap, w \in Windows :
    pub[o][w].done /\ BagCardinality(pub[o][w].events) >= 1 =>
      opmap[o].delayInfo[w].tp100 = FloorMs(MaxOf(BagToSet(pub[o][w].events)))

\* C6 amended: after a pass over a window that saw N >= 1 events (durations
\* >= 0) with maximum duration D, the published tp100 is at most floor(D / 1e6)
\* and at least floor(D / 1e6) - 5; it equals floor(D / 1e6) when the window
\* saw a single event of at least 5 ms.
C6_Tp100WithinSlack ==
  \A o \in DOMAIN opmap, w \in Windows :
    pub[o][w].done /\ BagCardinality(pub[o][w].events) >= 1 =>
      LET D == MaxOf(BagToSet(pub[o][w].events))
          tp100 == opmap[o].delayInfo[w].tp100
      IN  /\ tp100 <= FloorMs(D)
          /\ tp100 >= FloorMs(D) - 5
          /\ BagCardinality(pub[o][w].events) = 1 /\ FloorMs(D) >= 5 => tp100 = FloorMs(D)

\* C6 witness: a pass over a window that saw 7.5 ms and 12 ms published 7.
C6_Witness ==
  /\ "GET" \in DOMAIN opmap
  /\ pub["GET"][0].done
  /\ pub["GET"][0].events = (7500 :> 1) (+) (12000 :> 1)
  /\ opmap["GET"].delayInfo[0].tp100 = 7

AnyMinusOne(d) == d.tp90 = -1 \/ d.tp99 = -1 \/ d.tp999 = -1 \/ d.tp9999 = -1

\* C7 as claimed: after any pass on a window the published values satisfy
\* tp90 <= tp99 <= tp999 <= tp9999 <= tp100, unless one of the four is -1.
C7_OrderedUpToTp100 ==
  \A o \in DOMAIN opmap, w \in Windows :
    pub[o][w].done =>
      LET d == opmap[o].delayInfo[w]
      IN  \/ AnyMinusOne(d)
          \/ d.tp90 <= d.tp99 /\ d.tp99 <= d.tp999 /\ d.tp999 <= d.tp9999
               /\ d.tp9999 <= d.tp100

\* C7 amended: after any pass on a window the published values satisfy
\* tp90 <= tp99 <= tp999 <= tp9999, unless one of the four is -1; tp100 is
\* not an upper bound of them.
C7_FourOrdered ==
  \A o \in DOMAIN opmap, w \in Windows :
    pub[o][w].done =>
      LET d == opmap[o].delayInfo[w]
      IN  \/ AnyMinusOne(d)
          \/ d.tp90 <= d.tp99 /\ d.tp99 <= d.tp999 /\ d.tp999 <= d.tp9999

\* C7 witness: a pass published a tp90 strictly below its tp99.
C7_Witness ==
  \E o \in DOMAIN opmap :
    /\ pub[o][0].done
    /\ opmap[o].delayInfo[0].tp90 < opmap[o].delayInfo[0].tp99
    /\ opmap[o].delayInfo[0].tp90 > 0

\* ------------------------------------------------------------ C8
AllReturned == \A t \in Threads : hot[t].pc = "idle"

\* C8: once every concurrent IncrOpStats call on the op has returned, and no
\* window was reset, nsecsmax of each window is greater than the largest
\* duration the window observed minus 5 ms.
C8_MaxWithinSlack ==
  AllReturned =>
    \A o \in DOMAIN opmap : \A i \in Windows :
      seen[o][i] # EmptyBag =>
        opmap[o].delayInfo[i].nsecsmax > MaxOf(BagToSet(seen[o][i])) - Slack

\* C8 witness: two calls with different durations have returned and a window
\* holds a maximum below the larger of them.
C8_Witness ==
  /\ AllReturned
  /\ nevents = 2
  /\ "GET" \in DOMAIN opmap
  /\ Cardinality(BagToSet(seen["GET"][0])) = 2
  /\ opmap["GET"].delayInfo[0].nsecsmax < MaxOf(BagToSet(seen["GET"][0]))
  /\ opmap["GET"].delayInfo[0].nsecsmax > 0
\* ------------------------------------------------------------ C1, C10
RECURSIVE SumTp(_, _)
\* tp[0] + ... + tp[i]
SumTp(tp, i) == IF i < 0 THEN 0 ELSE CopiesIn(i, tp) + SumTp(tp, i - 1)

\* The events of the bag b with a duration of at least v ms.
RECURSIVE CountAtLeast(_, _, _)
CountAtLeast(b, S, v) ==
  IF S = {} THEN 0
  ELSE LET x == CHOOSE y \in S : TRUE
       IN  (IF x >= v THEN CopiesIn(x, b) ELSE 0) + CountAtLeast(b, S \ {x}, v)

\* C1: whenever no IncrOpStats call is partway through (and the aggregator is
\* not inside a RefreshOpStats), the 70 bucket counts of every window of every
\* op add up to the window's calls counter, also with refreshes running
\* concurrently with hot-path updates.
C1_HistogramSumsToCalls ==
  (AllReturned /\ AggOutside) =>
    \A o \in DOMAIN opmap : \A i \in Windows :
      SumTp(opmap[o].delayInfo[i].tp, TPMaxNum - 1) = opmap[o].delayInfo[i].calls

\* C10: whenever no IncrOpStats call is in progress (and the aggregator is not
\* inside a RefreshOpStats), delayCount[k] of every window is the number of
\* events of at least DelayNumMark[k] ms recorded since the window's last reset.
C10_DelayCountsMatch ==
  (AllReturned /\ AggOutside) =>
    \A o \in DOMAIN opmap : \A i \in Windows : \A k \in DelayKinds :
      opmap[o].delayInfo[i].delayCount[k] =
        CountAtLeast(slow[o][i], BagToSet(slow[o][i]), DelayNumMark[k])
\* ------------------------------------------------------------ C5
RECURSIVE SumTotalCalls(_)
\* The totalCalls of the ops in S, added up.
SumTotalCalls(S) ==
  IF S = {} THEN 0
  ELSE LET o == CHOOSE x \in S : TRUE
       IN  opmap[o].totalCalls + SumTotalCalls(S \ {o})

\* C5: whenever no IncrOpStats call is in progress (and no ResetStats call
\* either), ALL.totalCalls is the sum of totalCalls over the other ops, under
\* every interleaving of IncrOpStats and ResetStats calls.
C5_AllIsSumOfOthers ==
  (AllReturned /\ adm.pc = "idle") =>
    SumTotalCalls(DOMAIN opmap \ {"ALL"}) =
      (IF "ALL" \in DOMAIN opmap THEN opmap["ALL"].totalCalls ELSE 0)
\* ------------------------------------------------------------ C2, C3, C4
\* C2: once StatsSetAutoSetSlowFlag(false) has returned, and until
\* autoSetSlowFlag is set to true again, the last callback invoked for any op
\* is never SetMaySlowOp, however the controller's tick and the sweep
\* interleave.
C2_NoSetAfterSweep ==
  swept => \A o \in OpStrs : maySlowOp[o] # "set"

\* C2 witness: after the sweep has returned the controller, which had flagged
\* GET before, is inside its locked section again with GET's tp100 still above
\* logSlowerThan.
C2_Witness ==
  /\ swept
  /\ ctl.pc = "loop"
  /\ "GET" \in DOMAIN opmap
  /\ opmap["GET"].lastSetSlowTime > 0
  /\ opmap["GET"].delayInfo[0].tp100 * 1000 > cmdstats.logSlowerThan
  /\ maySlowOp["GET"] = "clear"

\* C3: after StatsSetAutoSetSlowFlag(false) has returned, every op of the
\* registry has lastClearSlowTime >= lastSetSlowTime.
C3_ClearedAfterSweep ==
  swept => \A o \in DOMAIN opmap :
             opmap[o].lastClearSlowTime >= opmap[o].lastSetSlowTime

\* C4: for every op of the registry, lastSetSlowTime >= lastClearSlowTime
\* implies that the last callback invoked for the op is SetMaySlowOp.
C4_SetTimeImpliesFlag ==
  \A o \in DOMAIN opmap :
    opmap[o].lastSetSlowTime >= opmap[o].lastClearSlowTime =>
      maySlowOp[opmap[o].opstr] = "set"
\* ------------------------------------------------------------ C11
\* The step invokes setMaySlowOpFlag(o): only line 170 writes lastSetSlowTime.
SetInvoked(o) ==
  /\ o \in DOMAIN opmap
  /\ opmap'[o].lastSetSlowTime # opmap[o].lastSetSlowTime

\* The step is the controller's clearMaySlowOpFlag(o): only line 173 writes
\* lastClearSlowTime.
ClearInvoked(o) ==
  /\ o \in DOMAIN opmap
  /\ opmap'[o].lastClearSlowTime # opmap[o].lastClearSlowTime

\* C11: the controller invokes SetMaySlowOp(op) only when the published tp100
\* (ms) of the op's window 0 is strictly greater than logSlowerThan, both in
\* milliseconds.
C11_SetOnlyAboveThresholdMs ==
  [][\A o \in OpStrs :
       SetInvoked(o) => opmap[o].delayInfo[0].tp100 > cmdstats.logSlowerThan]_vars
\* ------------------------------------------------------------ C12
\* C12: with refreshPeriod > 0 and autoSetSlowFlag staying true, once the
\* controller has invoked SetMaySlowOp("GET") and the slow GET events stop, it
\* eventually invokes ClearMaySlowOp("GET"), and an op that was flagged is
\* only cleared while SetMaySlowOp is the last callback invoked for it (one
\* clear per set).
C12_Hysteresis ==
  /\ (maySlowOp["GET"] = "set") ~> (maySlowOp["GET"] = "clear")
  /\ [][\A o \in OpStrs :
          ClearInvoked(o) /\ opmap[o].lastSetSlowTime > 0 => maySlowOp[o] = "set"]_vars

\* C12 witness: GET was flagged and, at least three seconds later, cleared.
C12_Witness ==
  /\ "GET" \in DOMAIN opmap
  /\ maySlowOp["GET"] = "clear"
  /\ opmap["GET"].lastSetSlowTime > 0
  /\ opmap["GET"].lastClearSlowTime >= opmap["GET"].lastSetSlowTime + 3

\* ------------------------------------------------------------ C13
\* The events of the bag b with a duration of at most v.
RECURSIVE CountAtMost(_, _, _)
CountAtMost(b, S, v) ==
  IF S = {} THEN 0
  ELSE LET x == CHOOSE y \in S : TRUE
       IN  (IF x <= v THEN CopiesIn(x, b) ELSE 0) + CountAtMost(b, S \ {x}, v)

\* The duration of the event of rank r (1 = shortest) of a non-empty bag b.
RankDuration(b, r) ==
  LET S == BagToSet(b)
      Reaches(v) == CountAtMost(b, S, v) >= r
  IN  CHOOSE v \in S : Reaches(v) /\ \A u \in S : Reaches(u) => v <= u

\* ceil(n * num / den)
RankCeil(n, num, den) == (n * num + den - 1) \div den

\* The upper edge of the bucket that holds the event of rank ceil(x * N).
PercentileEdge(b, num, den) ==
  tpdelay[TPIndex(RankDuration(b, RankCeil(BagCardinality(b), num, den)))]

\* C13: each published tp90, tp99, tp999, tp9999 of a window refreshed with
\* N >= 1 events and no concurrent update is the upper edge of the bucket that
\* holds the event of rank ceil(x * N), and none of them is below the smallest
\* observed duration in ms.
C13_PercentileBucket ==
  \A o \in DOMAIN opmap, w \in Windows :
    pub[o][w].done /\ pub[o][w].events # EmptyBag =>
      LET d == opmap[o].delayInfo[w]
          b == pub[o][w].events
          least == FloorMs(RankDuration(b, 1))
      IN  /\ d.tp90 = PercentileEdge(b, 9, 10)
          /\ d.tp99 = PercentileEdge(b, 99, 100)
          /\ d.tp999 = PercentileEdge(b, 999, 1000)
          /\ d.tp9999 = PercentileEdge(b, 9999, 10000)
          /\ d.tp90 >= least /\ d.tp99 >= least
          /\ d.tp999 >= least /\ d.tp9999 >= least

\* ------------------------------------------------------------ C14
\* The step is the aggregator's RefreshOpStats of op o for window agg.i.
RefreshedOp(o) ==
  /\ agg.pc = "refresh"
  /\ agg'.pc = "refresh"
  /\ o \in agg.todo
  /\ o \notin agg'.todo

\* C14: when a refresh finds calls > 0 and a histogram whose sum is below a
\* target count, so that the walk reaches the last bucket without the prefix
\* sum reaching the target, tp90, tp99, tp999 and tp9999 are all published
\* as -1.
C14_AnomalyPublishesMinusOne ==
  [][\A o \in OpStrs :
       RefreshedOp(o) =>
         LET d == opmap[o].delayInfo[agg.i]
             e == opmap'[o].delayInfo[agg.i]
         IN  d.calls > 0 /\ SumTp(d.tp, TPMaxNum - 1) < TpNum(d.calls, 9999, 10000)
               => e.tp90 = -1 /\ e.tp99 = -1 /\ e.tp999 = -1 /\ e.tp9999 = -1]_vars

\* ------------------------------------------------------------ C15
\* ResetStats is past its loop over the registry.
ResetLoopDone == adm.pc \in {"total", "fails", "cmderrors", "sessions", "settotal"}

\* C15: ResetStats sets totalCalls, totalNsecs, totalFails and redis.errors
\* of every op in the registry and the process-wide total, fails and
\* redis.errors to zero, and no step of it changes the set of registry entries
\* or any windowed counter or derived field of any op.
C15_ResetZeroesTotalsOnly ==
  /\ [](ResetLoopDone =>
          \A o \in DOMAIN opmap :
            /\ opmap[o].totalCalls = 0 /\ opmap[o].totalNsecs = 0
            /\ opmap[o].totalFails = 0 /\ opmap[o].rediserrors = 0)
  /\ [](adm.pc \in {"sessions", "settotal"} =>
          cmdstats.total = 0 /\ cmdstats.fails = 0 /\ cmdstats.rediserrors = 0)
  /\ [][adm' # adm =>
          /\ DOMAIN opmap' = DOMAIN opmap
          /\ \A o \in DOMAIN opmap : opmap'[o].delayInfo = opmap[o].delayInfo]_vars

\* C15 witness: ResetStats has zeroed the totals of a registry that holds GET
\* and SET, each with one event still counted in its windows.
C15_Witness ==
  /\ adm.pc = "sessions"
  /\ {"GET", "SET", "ALL"} \subseteq DOMAIN opmap
  /\ opmap["GET"].delayInfo[0].calls = 1
  /\ opmap["SET"].delayInfo[0].calls = 1
  /\ opmap["ALL"].delayInfo[0].nsecsmax > 0
  /\ opmap["ALL"].totalCalls = 0

\* ------------------------------------------------------------ C16
\* The loop is at its refreshPeriod check or in the one-second sleep after it.
AggIdle == agg.pc \in {"check", "nap"}
CtlIdle == ctl.pc \in {"check", "nap"}

C17_ClearOnlyAfterSet ==
  [][\A o \in OpStrs :
       ClearInvoked(o) =>
         /\ opmap[o].lastSetSlowTime > 0
         /\ opmap[o].lastSetSlowTime >= opmap[o].lastClearSlowTime
         /\ ctl.now - opmap[o].lastSetSlowTime
              >= ClearSlowFlagPeriodRate * cmdstats.refreshPeriod]_vars

\* ------------------------------------------------------------ C18
\* C18: the controller excludes the "ALL" aggregate: it never invokes
\* SetMaySlowOp("ALL") or ClearMaySlowOp("ALL") and never changes
\* lastSetSlowTime or lastClearSlowTime of the ALL op.
C18_AllExcluded ==
  [][~SetInvoked("ALL") /\ ~ClearInvoked("ALL")]_vars

\* ------------------------------------------------------------ C19
\* C19: lazy creation is race-free: for threads concurrently reporting the
\* first events of an opstr, one opStats object is created for that opstr,
\* every caller holds the object the registry points to, and an entry once in
\* the registry is never removed or replaced.
C19_OneEntryPerOpstr ==
  /\ [](\A o \in OpStrs :
          /\ objs[o].made <= 1
          /\ o \in DOMAIN opmap <=> objs[o].cur # 0)
  /\ [](\A t \in Threads :
          hot[t].s # 0 => hot[t].s = objs[hot[t].cur].cur)
  /\ [][\A o \in DOMAIN opmap :
          o \in DOMAIN opmap' /\ objs'[o].cur = objs[o].cur]_vars

\* C19 witness: a caller that found no entry waits for the write lock while
\* the entry has been created by the other caller, which holds it.
C19_Witness ==
  \E t, u \in Threads :
    /\ t # u
    /\ hot[t].pc = "create" /\ hot[t].cur = "GET"
    /\ "GET" \in DOMAIN opmap
    /\ hot[u].cur = "GET" /\ hot[u].s = objs["GET"].cur

\* ------------------------------------------------------------ C20
\* The counters of a window.
Counters(d) == <<d.calls, d.nsecs, d.nsecsmax, d.tp, d.delayCount>>

\* C20: the five windows have independent reset cadences: the counters of
\* window w of an op are reset only by a refresh of window w, which happens
\* only when at least IntervalMark[w] seconds have elapsed since window w's
\* previous refresh, and a refresh of window w leaves the counters and derived
\* fields of every other window unchanged.
C20_IndependentCadences ==
  [][\A o \in DOMAIN opmap :
       /\ \A w \in Windows :
            LET d == opmap[o].delayInfo[w]
                e == opmap'[o].delayInfo[w]
            IN  Counters(e) # Counters(d) /\ e.calls = 0
                  => RefreshedOp(o) /\ agg.i = w
       /\ RefreshedOp(o) =>
            /\ now - LastRefreshTime[agg.i] >= IntervalMark[agg.i]
            /\ \A v \in Windows \ {agg.i} :
                 opmap'[o].delayInfo[v] = opmap[o].delayInfo[v]]_vars

\* C20 witness: the 10 s window of GET has been refreshed with the event in
\* it, after the 1 s window had been refreshed on its own.
C20_Witness ==
  /\ "GET" \in DOMAIN opmap
  /\ pub["GET"][1].done
  /\ pub["GET"][1].events # EmptyBag
  /\ opmap["GET"].delayInfo[1].calls = 0
  /\ opmap["GET"].delayInfo[2].calls = 1
  /\ LastRefreshTime[0] > LastRefreshTime[1]

\* ------------------------------------------------------------ C21
\* C21: the hot path never takes or waits on the registry lock: a call for an
\* op that is already registered can take its next step, the lookup of
\* getOpStats, also while another thread holds or has requested the registry
\* write lock.
C21_HotPathNeverWaits ==
  \A t \in Threads :
    hot[t].pc = "lookup" /\ hot[t].cur \in DOMAIN opmap => ENABLED HotLookup(t)

\* ------------------------------------------------------------ C22
\* C22: with hot-path updates running concurrently with the aggregator, the
\* published threshold counters of every window are monotone whenever the
\* aggregator is not inside a RefreshOpStats: delay50ms >= delay100ms >=
\* delay200ms >= delay300ms >= delay500ms >= delay1s >= delay2s >= delay3s.
C22_PublishedDelaysMonotone ==
  AggOutside =>
    \A o \in DOMAIN opmap, w \in Windows :
      LET d == opmap[o].delayInfo[w]
      IN  /\ d.delay50ms >= d.delay100ms /\ d.delay100ms >= d.delay200ms
          /\ d.delay200ms >= d.delay300ms /\ d.delay300ms >= d.delay500ms
          /\ d.delay500ms >= d.delay1s /\ d.delay1s >= d.delay2s
          /\ d.delay2s >= d.delay3s

\* ------------------------------------------------------------ C23
\* C23: in every state with no incrSessions call partway through,
\* SessionsTotal() >= SessionsAlive(), after any interleaving of incrSessions,
\* decrSessions (never more decrements than increments) and ResetStats.
C23_TotalAtLeastAlive ==
  (\A t \in Threads : hot[t].pc # "alive") => sessions.total >= sessions.alive

\* ------------------------------------------------------------ C24
\* No call is partway through, no background loop waits for the registry
\* lock or holds it, and the lock is free with no writer waiting.
Quiescent ==
  /\ \A t \in Threads : hot[t].pc \in {"idle", "returned"}
  /\ adm.pc = "idle"
  /\ agg.pc \in {"check", "nap", "start", "sleep"}
  /\ ctl.pc \in {"check", "checkflag", "nap", "duration", "sleep", "asleep"}
  /\ rwmutex.r = {} /\ rwmutex.w = None /\ rwmutex.pend = {}

\* C24: the registry lock protocol is deadlock-free: with a hot-path thread
\* (getOpStats, read lock then write lock), the aggregator and the slow-op
\* controller (read lock), GetOpStatsByInterval and ResetStats (read lock) and
\* StatsSetAutoSetSlowFlag(false) (write lock) running concurrently under fair
\* scheduling, every lock acquisition is eventually granted and every one of
\* these operations eventually completes: from every state a state is reached
\* where none of them is waiting for the lock, holding it or partway through.
C24_LockProtocolLive == []<>Quiescent

\* C24 witness: the sweep holds the write lock while a session handler waits
\* at its lookup and both background loops wait for the read lock.
C24_Witness ==
  /\ rwmutex.w = "adm"
  /\ \E t \in Threads : hot[t].pc = "lookup"
  /\ agg.pc = "rlock"
  /\ ctl.pc = "rlock"

====
